---- MODULE Spec2Model ----
(***************************************************************************)
(* A model of the chatbot platform (FastAPI application): password        *)
(* custody (auth.py hash_password / verify_password), token issue and     *)
(* verification (create_access_token / verify_token), the two session     *)
(* resolvers (get_current_user, get_current_user_api), and the chat       *)
(* endpoint that builds a context and calls the completion gateway        *)
(* (main.py chat_endpoint, chatbot.py ChatBot).                           *)
(*                                                                         *)
(* The specifications share the variables:                                *)
(*   Spec      the web application: register, login, projects, prompts,   *)
(*             chat turns, time passing;                                  *)
(*   SpecAuth  the token service and the resolvers applied to every input *)
(*             of a bounded set, with time passing;                       *)
(*   SpecPw    the credential store applied to every input of a bounded   *)
(*             set;                                                       *)
(*   SpecCtx   the context builder and the gateway's answer applied to    *)
(*             every input of a bounded set;                              *)
(*   SpecChat  chat turns with a ChatBot whose outbound call is pending   *)
(*             (SpecChatFair: every pending call returns);                *)
(*   SpecReg   registrations of one email that overlap;                   *)
(*   SpecRoutes  the route table: every route and method requested with   *)
(*             no credentials, the owner's and another user's;            *)
(*   SpecSession  login, logout and replayed tokens, with time passing.   *)
(*                                                                         *)
(* Library calls are modelled by what the library does:                   *)
(*   bcrypt      hashes at most the first 72 bytes of the password; a     *)
(*               build with bcrypt >= 5.0 refuses a longer password with  *)
(*               ValueError instead (bcryptStrict); checkpw raises        *)
(*               ValueError("Invalid salt") for a malformed hash;         *)
(*   python-jose jwt.decode checks the algorithm, the signature and then  *)
(*               rejects an exp claim only when exp < now;                *)
(*   FastAPI     OAuth2PasswordBearer raises 401 "Not authenticated" for  *)
(*               an absent or non-bearer Authorization header.            *)
(* Cryptography is ideal: a MAC is the record of what was signed and with *)
(* which key, a bcrypt digest the record of what was hashed with which    *)
(* salt, and gensalt() never repeats a salt.                              *)
(***************************************************************************)
EXTENDS Integers, Sequences, FiniteSets, TLC

VARIABLES
    users,        \* table users: sequence of [email, password_hash, created_at]; id = index
    projects,     \* table projects: sequence of [user_id]; id = index
    prompts,      \* table prompts: sequence of [project_id, text]
    messages,     \* table messages: sequence of [project_id, role, content]; index = timestamp order
    now,          \* datetime.utcnow(), in minutes
    issued,       \* SpecAuth: what create_access_token returned so far: set of [token, at, ttl]
    chatbot,      \* main.py chatbot: the ChatBot instance, or None when its construction failed
    inflight,     \* chat requests suspended in the outbound completion call, in arrival order
    resp,         \* the last HTTP response of the application
    authLast,     \* SpecAuth: the last call of a token-service / resolver function and its outcome
    bcryptStrict, \* the build's bcrypt refuses passwords over 72 bytes (>= 5.0) instead of truncating
    usedSalts,    \* salts gensalt() has returned so far
    pwHashes,     \* SpecPw: the results of hash_password calls, in call order: [pw, hash]
    pwLast,       \* SpecPw: the last call of verify_password / authenticate_user and its outcome
    gwLast,       \* SpecCtx: the last call of chat_with_context / chat and what it built or returned
    files,        \* table files: sequence of [project_id, filename, file_path]; id = index
    posts,        \* the POSTs sent to the provider so far, in order: [user_message]
    logouts,      \* the instant of the last logout request, or None
    registering,  \* SpecReg: registrations that passed the "already registered" check
    req           \* SpecRoutes, SpecSession: the request the last response answers

mainVars == <<users, projects, prompts, messages, chatbot, inflight, resp>>
authVars == <<authLast>>
pwVars   == <<pwHashes, pwLast>>
gwVars   == <<gwLast>>
webVars  == <<files, posts, logouts, registering, req>>
vars == <<users, projects, prompts, messages, now, issued, chatbot, inflight, resp,
          authLast, bcryptStrict, usedSalts, pwHashes, pwLast, gwLast,
          files, posts, logouts, registering, req>>

----------------------------------------------------------------------------
(* Bounds of the model *)

MaxSalts == 2        \* how many salts gensalt() can hand out (hash_password calls)
MaxTicks == 2        \* how many times the clock is seen to advance
MaxIssued == 1       \* SpecAuth: how many tokens create_access_token hands out
MaxProjects == 2     \* Spec: rows of the projects table
MaxPrompts == 1      \* Spec: rows of the prompts table
MaxMessages == 4     \* Spec: rows of the messages table
MaxInflight == 1     \* Spec: chat requests suspended in the completion call at once
MaxRegistering == 2  \* SpecReg: registrations between their check and their insert at once
MaxFiles == 1        \* SpecRoutes: rows of the files table
MaxSessions == 2     \* SpecSession: how many tokens login and /token hand out

----------------------------------------------------------------------------
(* Python values *)

\* Optional[...]: None or a value; the outcome of a call: a value or a raised exception
None == [k |-> "None"]
Some(v) == [k |-> "Some", v |-> v]
Ok(v) == [raised |-> FALSE, value |-> v]
Raise(e) == [raised |-> TRUE, exc |-> e]

Min(a, b) == IF a <= b THEN a ELSE b

\* n copies of x
Rep(x, n) == [i \in 1..n |-> x]

----------------------------------------------------------------------------
(* CredentialStore: auth.py hash_password, verify_password over bcrypt *)

\* bcrypt uses at most this many bytes of the password
BcryptMaxBytes == 72

\* str.encode('utf-8') of a sequence of code points (below 2048)
RECURSIVE Utf8Encode(_)
Utf8Encode(s) ==
    IF s = <<>> THEN <<>>
    ELSE LET c == Head(s)
         IN (IF c < 128 THEN <<c>> ELSE <<192 + (c \div 64), 128 + (c % 64)>>)
            \o Utf8Encode(Tail(s))

Salts == 1..MaxSalts

\* The 16 random bytes of the next gensalt() call: a value no call returned
\* before (which one is immaterial: the least).
FreshSalt == CHOOSE s \in Salts \ usedSalts : \A u \in Salts \ usedSalts : s <= u

\* bcrypt.gensalt(): "$2b$12$" and 16 random bytes; s names the random bytes.
\* (FixedSalt: a salt that is the same on every call.)
FixedSalt(s) == [k |-> "bcrypt", ver |-> "2b", rounds |-> 12, raw |-> 1]
GenSalt(s) == [k |-> "bcrypt", ver |-> "2b", rounds |-> 12, raw |-> s]

\* A bcrypt hash string carries its salt; anything else is not a valid salt.
IsBcryptString(h) == h.k = "bcrypt"

\* bcrypt.hashpw(password, salt): salt may be a salt or a whole hash (checkpw).
HashPw(pwBytes, salt, strict) ==
    IF ~IsBcryptString(salt) THEN Raise("ValueError: Invalid salt")
    ELSE IF strict /\ Len(pwBytes) > BcryptMaxBytes
         THEN Raise("ValueError: password cannot be longer than 72 bytes")
    ELSE Ok([k |-> "bcrypt", ver |-> salt.ver, rounds |-> salt.rounds, raw |-> salt.raw,
             digest |-> SubSeq(pwBytes, 1, Min(Len(pwBytes), BcryptMaxBytes))])

\* bcrypt.checkpw(password, hashed): hashpw(password, hashed) == hashed
CheckPw(pwBytes, hashed, strict) ==
    LET r == HashPw(pwBytes, hashed, strict)
    IN IF r.raised THEN r ELSE Ok(r.value = hashed)

\* auth.py hash_password(password) with the salt gensalt() returned
hash_password(password, s, strict) ==
    HashPw(Utf8Encode(password), GenSalt(s), strict)

\* auth.py verify_password(plain_password, hashed_password)
verify_password(plain_password, hashed_password, strict) ==
    CheckPw(Utf8Encode(plain_password), hashed_password, strict)

----------------------------------------------------------------------------
(* Strings the code takes apart: a sequence of cells, a cell being one      *)
(* character or one compact JWT (header.payload.signature) taken whole.     *)

Ch(c) == [k |-> "ch", c |-> c]
BearerPrefix == <<Ch("B"), Ch("e"), Ch("a"), Ch("r"), Ch("e"), Ch("r"), Ch(" ")>>
StartsWith(s, p) == Len(s) >= Len(p) /\ SubSeq(s, 1, Len(p)) = p

----------------------------------------------------------------------------
(* TokenService: auth.py create_access_token, verify_token over python-jose *)

SECRET_KEY == "your-secret-key-change-in-production"
ALGORITHM == "HS256"
ACCESS_TOKEN_EXPIRE_MINUTES == 30

\* timedelta(minutes=n); bool(timedelta) is False for a zero timedelta
timedelta(n) == [k |-> "timedelta", minutes |-> n]
Truthy(d) == d.k = "timedelta" /\ d.minutes # 0

\* The signature over header and payload under a key (ideal MAC).
Hmac(key, alg, payload) == [key |-> key, alg |-> alg, payload |-> payload]

\* jose.jwt.encode(claims, key, algorithm): the compact token, as a string
JwtEncode(claims, key, alg) ==
    <<[k |-> "jwt", alg |-> alg, payload |-> claims, sig |-> Hmac(key, alg, claims)]>>

\* jose.jwt.decode(token, key, algorithms) at time t: the claims or JWTError.
\* (JwtDecodeUnverified: the claims are read without checking the signature.)
JwtDecodeUnverified(token, key, algorithms, t) ==
    IF Len(token) # 1 \/ token[1].k # "jwt" THEN Raise("JWTError")
    ELSE LET j == token[1]
         IN IF "exp" \in DOMAIN j.payload /\ j.payload.exp < t THEN Raise("JWTError")
            ELSE Ok(j.payload)
JwtDecode(token, key, algorithms, t) ==
    IF Len(token) # 1 \/ token[1].k # "jwt" THEN Raise("JWTError")
    ELSE LET j == token[1]
         IN IF j.alg \notin algorithms THEN Raise("JWTError")
            ELSE IF j.sig # Hmac(key, j.alg, j.payload) THEN Raise("JWTError")
            ELSE IF "exp" \in DOMAIN j.payload /\ j.payload.exp < t THEN Raise("JWTError")
            ELSE Ok(j.payload)

\* auth.py create_access_token(data, expires_delta) called at time t
create_access_token(data, expires_delta, t) ==
    LET expire == IF Truthy(expires_delta)
                  THEN t + expires_delta.minutes
                  ELSE t + ACCESS_TOKEN_EXPIRE_MINUTES
    IN JwtEncode([sub |-> data.sub, exp |-> expire], SECRET_KEY, ALGORITHM)

\* auth.py verify_token(token) called at time t: Some(email) or None.
\* (verify_token_revoking: a logout revokes the tokens the server issued.)
verify_token_revoking(token, t) ==
    LET r == JwtDecode(token, SECRET_KEY, {ALGORITHM}, t)
    IN IF r.raised THEN None
       ELSE IF "sub" \notin DOMAIN r.value THEN None
       ELSE IF logouts # None THEN None
       ELSE Some(r.value.sub)
verify_token(token, t) ==
    LET r == JwtDecode(token, SECRET_KEY, {ALGORITHM}, t)
    IN IF r.raised THEN None
       ELSE IF "sub" \notin DOMAIN r.value THEN None
       ELSE Some(r.value.sub)

----------------------------------------------------------------------------
(* SessionResolver: auth.py get_token_from_cookie, get_current_user,        *)
(* oauth2_scheme, get_current_user_api                                      *)

\* db.query(User).filter(User.email == email).first()
UserByEmail(us, email) ==
    IF \E i \in 1..Len(us) : us[i].email = email
    THEN LET i == CHOOSE i \in 1..Len(us) :
                     us[i].email = email /\ \A j \in 1..(i - 1) : us[j].email # email
         IN Some([id |-> i, email |-> us[i].email, password_hash |-> us[i].password_hash,
                  created_at |-> us[i].created_at])
    ELSE None

HTTPException(status, detail, headers) ==
    [status |-> status, detail |-> detail, headers |-> headers]
credentials_exception ==
    HTTPException(401, "Could not validate credentials", {<<"WWW-Authenticate", "Bearer">>})

\* auth.py get_token_from_cookie: cookie is request.cookies.get("access_token").
\* (get_token_from_cookie_short: one character less is cut off, token[6:].)
get_token_from_cookie_short(cookie) ==
    IF cookie # None /\ cookie.v # <<>> /\ StartsWith(cookie.v, BearerPrefix)
    THEN Some(SubSeq(cookie.v, 7, Len(cookie.v)))
    ELSE None
get_token_from_cookie(cookie) ==
    IF cookie # None /\ cookie.v # <<>> /\ StartsWith(cookie.v, BearerPrefix)
    THEN Some(SubSeq(cookie.v, 8, Len(cookie.v)))
    ELSE None

\* auth.py get_current_user: Ok(user) or the HTTPException raised.
\* (get_current_user_telling: an expired or unknown token is told apart.)
get_current_user_telling(cookie, us, t) ==
    LET token == get_token_from_cookie(cookie)
    IN IF token = None THEN Raise(credentials_exception)
       ELSE LET email == verify_token(token.v, t)
            IN IF email = None
               THEN Raise(HTTPException(401, "Token expired or invalid",
                                        {<<"WWW-Authenticate", "Bearer">>}))
               ELSE LET user == UserByEmail(us, email.v)
                    IN IF user = None THEN Raise(credentials_exception)
                       ELSE Ok(user.v)
get_current_user(cookie, us, t) ==
    LET token == get_token_from_cookie(cookie)
    IN IF token = None THEN Raise(credentials_exception)
       ELSE LET email == verify_token(token.v, t)
            IN IF email = None THEN Raise(credentials_exception)
               ELSE LET user == UserByEmail(us, email.v)
                    IN IF user = None THEN Raise(credentials_exception)
                       ELSE Ok(user.v)

\* fastapi get_authorization_scheme_param: scheme, _, param = value.partition(" ")
Lower(cell) ==
    IF cell.k = "ch" /\ cell.c = "B" THEN Ch("b") ELSE cell
FirstSpace(s) ==
    IF \E i \in 1..Len(s) : s[i] = Ch(" ")
    THEN CHOOSE i \in 1..Len(s) : s[i] = Ch(" ") /\ \A j \in 1..(i - 1) : s[j] # Ch(" ")
    ELSE Len(s) + 1
SchemeOf(s) == [i \in 1..(FirstSpace(s) - 1) |-> Lower(s[i])]
ParamOf(s) == SubSeq(s, FirstSpace(s) + 1, Len(s))
BearerLower == <<Ch("b"), Ch("e"), Ch("a"), Ch("r"), Ch("e"), Ch("r")>>

\* auth.py oauth2_scheme = OAuth2PasswordBearer(tokenUrl="token"), auto_error:
\* Ok(token) or the HTTPException raised; authorization is the header or None
oauth2_scheme(authorization) ==
    IF authorization = None \/ authorization.v = <<>>
       \/ SchemeOf(authorization.v) # BearerLower
    THEN Raise(HTTPException(401, "Not authenticated", {<<"WWW-Authenticate", "Bearer">>}))
    ELSE Ok(ParamOf(authorization.v))

\* auth.py get_current_user_api(token = Depends(oauth2_scheme))
get_current_user_api(authorization, us, t) ==
    LET token == oauth2_scheme(authorization)
    IN IF token.raised THEN token
       ELSE LET email == verify_token(token.value, t)
            IN IF email = None THEN Raise(credentials_exception)
               ELSE LET user == UserByEmail(us, email.v)
                    IN IF user = None THEN Raise(credentials_exception)
                       ELSE Ok(user.v)

\* auth.py authenticate_user(db, email, password): Ok(Some(user)), Ok(None) or raised
authenticate_user(us, email, password, strict) ==
    LET user == UserByEmail(us, email)
    IN IF user = None THEN Ok(None)
       ELSE LET v == verify_password(password, user.v.password_hash, strict)
            IN IF v.raised THEN v
               ELSE IF ~v.value THEN Ok(None)
               ELSE Ok(user)

----------------------------------------------------------------------------
(* The login entry points: main.py login_for_access_token, login            *)

\* What a handler answers: status, detail (or page), and the cookie it sets
Response(route, status, detail, set_cookie) ==
    [status |-> status, detail |-> detail, set_cookie |-> set_cookie]

\* main.py lines 129, 156: value=f"Bearer {access_token}".
\* (SessionCookieBare: the token is stored without the prefix.)
SessionCookieBare(token) == token
SessionCookie(token) == BearerPrefix \o token

\* main.py login_for_access_token (POST /token): Ok(the JSON body) or the
\* exception raised
login_for_access_token(us, username, password, strict, t) ==
    LET user == authenticate_user(us, username, password, strict)
    IN IF user.raised THEN user
       ELSE IF user.value = None
       THEN Raise(HTTPException(401, "Incorrect email or password",
                                {<<"WWW-Authenticate", "Bearer">>}))
       ELSE LET access_token_expires == timedelta(ACCESS_TOKEN_EXPIRE_MINUTES)
                access_token == create_access_token([sub |-> user.value.v.email],
                                                    access_token_expires, t)
            IN Ok([access_token |-> access_token, token_type |-> "bearer"])

\* main.py login (POST /login): the response
login(us, email, password, strict, t) ==
    LET user == authenticate_user(us, email, password, strict)
    IN IF user.raised
       THEN Response("login", 500, "Internal Server Error", None)
       ELSE IF user.value = None
       THEN Response("login", 200, "Invalid email or password", None)
       ELSE LET access_token ==
                    create_access_token([sub |-> user.value.v.email], None, t)
            IN Response("login", 303, "/dashboard", Some(SessionCookie(access_token)))

----------------------------------------------------------------------------
(* Initial values shared by the specifications *)

NoCall == [op |-> "none"]
NoResp == [status |-> 0]
NoReq == [method |-> "none"]

----------------------------------------------------------------------------
(* SpecPw: hash_password, verify_password and authenticate_user applied to  *)
(* passwords and stored hashes of a bounded set.                            *)

\* "pw1", "pw2", and two passwords of 73 bytes that share their first 72
PwA == <<112, 119, 49>>
PwB == <<112, 119, 50>>
PwLongX == Rep(97, BcryptMaxBytes) \o <<120>>
PwLongY == Rep(97, BcryptMaxBytes) \o <<121>>
Passwords == {PwA, PwB, PwLongX, PwLongY}

\* Stored password_hash values that are not bcrypt strings
MalformedHashes == {[k |-> "text", s |-> "not-a-bcrypt-hash"], [k |-> "text", s |-> ""]}

\* What a password_hash column can hold: a hash hash_password made, or a malformed one
StoredHashes == {pwHashes[i].hash : i \in 1..Len(pwHashes)} \cup MalformedHashes

PwEmail == "a@x.com"

InitPw ==
    /\ users = <<>>
    /\ projects = <<>>
    /\ prompts = <<>>
    /\ messages = <<>>
    /\ now = 0
    /\ issued = {}
    /\ chatbot = None
    /\ inflight = <<>>
    /\ resp = NoResp
    /\ usedSalts = {}
    /\ bcryptStrict \in BOOLEAN
    /\ authLast = NoCall
    /\ pwHashes = <<>>
    /\ pwLast = NoCall
    /\ gwLast = NoCall
    /\ files = <<>>
    /\ posts = <<>>
    /\ logouts = None
    /\ registering = <<>>
    /\ req = NoReq

\* hash_password(p): gensalt() returns a salt never returned before
PwHash(p) ==
    /\ usedSalts # Salts
    /\ LET r == hash_password(p, FreshSalt, bcryptStrict)
       IN /\ usedSalts' = usedSalts \cup {FreshSalt}
          /\ pwHashes' = IF r.raised THEN pwHashes
                         ELSE Append(pwHashes, [pw |-> p, hash |-> r.value])
          /\ pwLast' = [op |-> "hash", plain |-> p, out |-> r]
    /\ UNCHANGED <<mainVars, now, issued, authVars, bcryptStrict, gwVars, webVars>>

\* verify_password(p, h)
PwVerify(p, h) ==
    /\ pwLast' = [op |-> "verify", plain |-> p, hash |-> h,
                  out |-> verify_password(p, h, bcryptStrict)]
    /\ UNCHANGED <<mainVars, now, issued, authVars, bcryptStrict, usedSalts, pwHashes, gwVars, webVars>>

\* authenticate_user(db, email, p) on a users table whose one row stores h
PwAuthenticate(email, p, h) ==
    /\ pwLast' = [op |-> "auth", plain |-> p, hash |-> h, email |-> email,
                  out |-> authenticate_user(<<[email |-> PwEmail, password_hash |-> h,
                                               created_at |-> 0]>>,
                                            email, p, bcryptStrict)]
    /\ UNCHANGED <<mainVars, now, issued, authVars, bcryptStrict, usedSalts, pwHashes, gwVars, webVars>>

NextPw ==
    \/ \E p \in Passwords : PwHash(p)
    \/ \E p \in Passwords, h \in StoredHashes : PwVerify(p, h)
    \/ \E e \in {PwEmail, "ghost@x.com"}, p \in Passwords, h \in StoredHashes :
           PwAuthenticate(e, p, h)

SpecPw == InitPw /\ [][NextPw]_vars

\* h is a hash that hash_password made of p
HashOf(p, h) == \E i \in 1..Len(pwHashes) : pwHashes[i] = [pw |-> p, hash |-> h]
\* h is a hash that hash_password made of some password
Hashed(h) == \E i \in 1..Len(pwHashes) : pwHashes[i].hash = h

\* C8 (as claimed): verify_password(p, hash_password(p)) is true for all p, and
\* verify_password(p1, hash_password(p2)) is false for all p1 # p2.
\* Stated of the calls that return: a call that raises is C10's subject.
C8_Original ==
    (pwLast.op = "verify" /\ Hashed(pwLast.hash) /\ ~pwLast.out.raised)
        => pwLast.out.value = HashOf(pwLast.plain, pwLast.hash)

\* C9: two hash_password calls on the same password give two different hashes,
\* and verify_password accepts the password against each of them.
C9_SaltFreshness ==
    /\ \A i, j \in 1..Len(pwHashes) :
         (i # j /\ pwHashes[i].pw = pwHashes[j].pw) => pwHashes[i].hash # pwHashes[j].hash
    /\ (pwLast.op = "verify" /\ HashOf(pwLast.plain, pwLast.hash)) => pwLast.out = Ok(TRUE)

\* Two hashes of one password exist and the later one was just verified against it.
C9_Witness ==
    /\ Len(pwHashes) >= 2
    /\ pwHashes[1].pw = pwHashes[2].pw
    /\ pwLast.op = "verify"
    /\ pwLast.plain = pwHashes[2].pw
    /\ pwLast.hash = pwHashes[2].hash
    /\ pwLast.out = Ok(TRUE)

\* C10 (as claimed): verify_password returns false without raising for every pair
\* that does not match, a malformed stored hash included, and authenticate_user
\* then answers "not authenticated" (None) instead of raising.
C10_Original ==
    /\ (pwLast.op = "verify" /\ ~HashOf(pwLast.plain, pwLast.hash))
           => pwLast.out = Ok(FALSE)
    /\ (pwLast.op = "auth" /\ ~HashOf(pwLast.plain, pwLast.hash))
           => pwLast.out = Ok(None)

----------------------------------------------------------------------------
(* Time: datetime.utcnow() advances by a minute or by the default TTL.       *)

TickSteps == {1, ACCESS_TOKEN_EXPIRE_MINUTES}

\* The least number of steps of TickSteps that lead from 0 to now
TicksTaken == (now \div ACCESS_TOKEN_EXPIRE_MINUTES) + (now % ACCESS_TOKEN_EXPIRE_MINUTES)

Tick(d) ==
    /\ TicksTaken < MaxTicks
    /\ now' = now + d
    /\ UNCHANGED <<mainVars, issued, authVars, bcryptStrict, usedSalts, pwVars, gwVars, webVars>>

----------------------------------------------------------------------------
(* SpecAuth: create_access_token, verify_token, get_current_user and        *)
(* get_current_user_api applied to tokens, cookies and headers of a bounded *)
(* set, on a users table that holds a@x.com, while time passes.             *)

AuthEmail == "a@x.com"
GhostEmail == "ghost@x.com"
AuthUsers ==
    <<[email |-> AuthEmail, password_hash |-> hash_password(PwA, 1, FALSE).value,
       created_at |-> 0]>>

InitAuth ==
    /\ users = AuthUsers
    /\ projects = <<>>
    /\ prompts = <<>>
    /\ messages = <<>>
    /\ now = 0
    /\ issued = {}
    /\ chatbot = None
    /\ inflight = <<>>
    /\ resp = NoResp
    /\ usedSalts = {1}
    /\ bcryptStrict = FALSE
    /\ authLast = NoCall
    /\ pwHashes = <<>>
    /\ pwLast = NoCall
    /\ gwLast = NoCall
    /\ files = <<>>
    /\ posts = <<>>
    /\ logouts = None
    /\ registering = <<>>
    /\ req = NoReq

\* expires_delta arguments: omitted, zero, one minute
TTLs == {None, timedelta(0), timedelta(1)}

\* "abc123"
Garbage == <<Ch("a"), Ch("b"), Ch("c"), Ch("1"), Ch("2"), Ch("3")>>

\* Tokens a client can present at time t. Signed by the server: valid, at its
\* exp instant, expired, for an unknown subject, without sub, without exp.
\* Not signed by the server: another secret, alg "none", a payload swapped under
\* a signature the server gave to another payload. Not a JWT at all.
CraftedTokens(t) ==
    { JwtEncode([sub |-> AuthEmail, exp |-> t + 1], SECRET_KEY, ALGORITHM),
      JwtEncode([sub |-> AuthEmail, exp |-> t], SECRET_KEY, ALGORITHM),
      JwtEncode([sub |-> AuthEmail, exp |-> t - 1], SECRET_KEY, ALGORITHM),
      JwtEncode([sub |-> GhostEmail, exp |-> t + 1], SECRET_KEY, ALGORITHM),
      JwtEncode([exp |-> t + 1], SECRET_KEY, ALGORITHM),
      JwtEncode([sub |-> AuthEmail], SECRET_KEY, ALGORITHM),
      JwtEncode([sub |-> AuthEmail, exp |-> t + 1], "attacker-secret", ALGORITHM),
      <<[k |-> "jwt", alg |-> "none", payload |-> [sub |-> AuthEmail, exp |-> t + 1],
         sig |-> None]>>,
      <<[k |-> "jwt", alg |-> ALGORITHM, payload |-> [sub |-> AuthEmail, exp |-> t + 1],
         sig |-> Hmac(SECRET_KEY, ALGORITHM, [sub |-> GhostEmail, exp |-> t + 1])]>>,
      Garbage,
      <<>> }

TokenInputs == {r.token : r \in issued} \cup CraftedTokens(now)

\* access_token cookies: absent, a token with or without the "Bearer " prefix
\* ("abc123", "Bearer abc123", "", "Bearer " among them), "bearer abc123"
CookieInputs ==
    {None, Some(BearerLower \o <<Ch(" ")>> \o Garbage)}
           \cup {Some(tok) : tok \in TokenInputs}
           \cup {Some(BearerPrefix \o tok) : tok \in TokenInputs}

\* Authorization headers: absent, "Bearer <token>", "bearer <token>",
\* "Basic <token>", "Bearer"
HeaderInputs ==
    {None, Some(<<Ch("B"), Ch("e"), Ch("a"), Ch("r"), Ch("e"), Ch("r")>>)}
        \cup {Some(BearerPrefix \o tok) : tok \in TokenInputs}
        \cup {Some(BearerLower \o <<Ch(" ")>> \o tok) : tok \in TokenInputs}
        \cup {Some(<<Ch("B"), Ch("a"), Ch("s"), Ch("i"), Ch("c"), Ch(" ")>> \o tok) :
                  tok \in TokenInputs}

\* create_access_token({"sub": sub}, ttl)
AuthIssue(sub, ttl) ==
    /\ Cardinality(issued) < MaxIssued
    /\ LET tok == create_access_token([sub |-> sub], ttl, now)
       IN /\ issued' = issued \cup {[token |-> tok, at |-> now, ttl |-> ttl]}
          /\ authLast' = [op |-> "issue", at |-> now, out |-> tok]
    /\ UNCHANGED <<mainVars, now, bcryptStrict, usedSalts, pwVars, gwVars, webVars>>

\* verify_token(tok)
AuthVerify(tok) ==
    /\ authLast' = [op |-> "verify", token |-> tok, at |-> now,
                    out |-> verify_token(tok, now)]
    /\ UNCHANGED <<mainVars, now, issued, bcryptStrict, usedSalts, pwVars, gwVars, webVars>>

\* get_token_from_cookie on a request whose access_token cookie is c
AuthExtract(c) ==
    /\ authLast' = [op |-> "extract", cookie |-> c, at |-> now,
                    out |-> get_token_from_cookie(c)]
    /\ UNCHANGED <<mainVars, now, issued, bcryptStrict, usedSalts, pwVars, gwVars, webVars>>

\* get_current_user on a request whose access_token cookie is c
AuthResolveCookie(c) ==
    /\ authLast' = [op |-> "cookie", cookie |-> c, at |-> now,
                    out |-> get_current_user(c, users, now)]
    /\ UNCHANGED <<mainVars, now, issued, bcryptStrict, usedSalts, pwVars, gwVars, webVars>>

\* get_current_user_api on a request whose Authorization header is h
AuthResolveHeader(h) ==
    /\ authLast' = [op |-> "header", header |-> h, at |-> now,
                    out |-> get_current_user_api(h, users, now)]
    /\ UNCHANGED <<mainVars, now, issued, bcryptStrict, usedSalts, pwVars, gwVars, webVars>>

\* POST /token with form fields username, password
AuthToken(username, password) ==
    /\ authLast' = [op |-> "token", email |-> username, password |-> password, at |-> now,
                    out |-> login_for_access_token(users, username, password,
                                                   bcryptStrict, now)]
    /\ UNCHANGED <<mainVars, now, issued, bcryptStrict, usedSalts, pwVars, gwVars, webVars>>

\* POST /login with form fields email, password
AuthLogin(email, password) ==
    /\ authLast' = [op |-> "login", email |-> email, password |-> password, at |-> now,
                    out |-> login(users, email, password, bcryptStrict, now)]
    /\ UNCHANGED <<mainVars, now, issued, bcryptStrict, usedSalts, pwVars, gwVars, webVars>>

NextAuth ==
    \/ \E d \in TickSteps : Tick(d)
    \/ \E ttl \in TTLs : AuthIssue(AuthEmail, ttl)
    \/ \E tok \in TokenInputs : AuthVerify(tok)
    \/ \E c \in CookieInputs : AuthExtract(c)
    \/ \E c \in CookieInputs : AuthResolveCookie(c)
    \/ \E h \in HeaderInputs : AuthResolveHeader(h)
    \/ \E e \in {AuthEmail, GhostEmail}, p \in {PwA, PwB} : AuthToken(e, p)
    \/ \E e \in {AuthEmail, GhostEmail}, p \in {PwA, PwB} : AuthLogin(e, p)

SpecAuth == InitAuth /\ [][NextAuth]_vars

\* Why a token is refused at time t, read off the token itself: not a token the
\* server's secret signed as it stands, past its exp, without sub, or for a
\* subject with no user record; "valid" otherwise. (A token at its exp instant
\* is C5's subject; here expired means exp < t.)
TokenCause(tok, t) ==
    IF Len(tok) # 1 \/ tok[1].k # "jwt" THEN "malformed"
    ELSE IF tok # JwtEncode(tok[1].payload, SECRET_KEY, ALGORITHM) THEN "malformed"
    ELSE IF "exp" \in DOMAIN tok[1].payload /\ tok[1].payload.exp < t THEN "expired"
    ELSE IF "sub" \notin DOMAIN tok[1].payload THEN "no_subject"
    ELSE IF \A i \in 1..Len(users) : users[i].email # tok[1].payload.sub THEN "unknown_user"
    ELSE "valid"

CookieCause(c, t) ==
    IF c = None THEN "missing"
    ELSE IF ~StartsWith(c.v, BearerPrefix) THEN "no_prefix"
    ELSE TokenCause(SubSeq(c.v, Len(BearerPrefix) + 1, Len(c.v)), t)

HeaderCause(h, t) ==
    IF h = None THEN "missing"
    ELSE IF ~StartsWith(h.v, BearerPrefix) THEN "no_prefix"
    ELSE TokenCause(SubSeq(h.v, Len(BearerPrefix) + 1, Len(h.v)), t)

Generic401 ==
    [status |-> 401, detail |-> "Could not validate credentials",
     headers |-> {<<"WWW-Authenticate", "Bearer">>}]

\* C3: on the cookie strategy every failure cause (missing cookie, no "Bearer "
\* prefix, malformed token, expired token, token without sub, signed token of an
\* unknown subject) gets one and the same response: 401, "Could not validate
\* credentials", WWW-Authenticate: Bearer.
C3_CookieUniform401 ==
    (authLast.op = "cookie" /\ CookieCause(authLast.cookie, authLast.at) # "valid")
        => authLast.out = Raise(Generic401)

\* A validly signed, unexpired token whose subject has no user record was refused.
C3_Witness ==
    /\ authLast.op = "cookie"
    /\ CookieCause(authLast.cookie, authLast.at) = "unknown_user"
    /\ authLast.out.raised
    /\ authLast.out.exc.status = 401

\* C4 (as claimed): the header strategy answers every failure cause, an absent
\* Authorization header included, with the same generic 401 as the cookie strategy.
C4_Original ==
    (authLast.op = "header" /\ HeaderCause(authLast.header, authLast.at) # "valid")
        => authLast.out = Raise(Generic401)

\* The TTL a token was issued with: the explicit one, or the default
TtlOf(r) == IF r.ttl = None THEN ACCESS_TOKEN_EXPIRE_MINUTES ELSE r.ttl.minutes

\* C5 (as claimed): a token issued at T with TTL t is accepted by verify_token at
\* every now < T + t and rejected at every now >= T + t. (Stated of the tokens
\* issued with the default or a non-zero TTL; the zero TTL is C6's subject.)
C5_Original ==
    authLast.op = "verify" =>
        \A r \in issued :
            (r.token = authLast.token /\ TtlOf(r) # 0) =>
                ((authLast.out # None) <=> (authLast.at < r.at + TtlOf(r)))

\* C6 (as claimed): the exp claim of a token issued with an explicit TTL t is
\* issue time + t, a zero TTL included; with no TTL it is issue time + 30 minutes.
C6_Original ==
    \A r \in issued : r.token[1].payload.exp = r.at + TtlOf(r)

\* The token is not what the server's secret signs for the payload it carries.
NotServerSigned(tok) ==
    /\ Len(tok) = 1
    /\ tok[1].k = "jwt"
    /\ tok # JwtEncode(tok[1].payload, SECRET_KEY, ALGORITHM)

\* C7: a token whose payload or signature was altered, or that another secret
\* signed, is rejected by verify_token whatever its claims.
C7_TamperedRejected ==
    (authLast.op = "verify" /\ NotServerSigned(authLast.token)) => authLast.out = None

\* A token another secret signed, with a registered sub and an exp in the future,
\* was rejected.
C7_Witness ==
    /\ authLast.op = "verify"
    /\ NotServerSigned(authLast.token)
    /\ authLast.token[1].sig # None
    /\ authLast.token[1].sig.key # SECRET_KEY
    /\ authLast.token[1].payload.sub = AuthEmail
    /\ authLast.token[1].payload.exp > authLast.at
    /\ authLast.out = None

\* C11: get_token_from_cookie yields a token if and only if the access_token
\* cookie is present and its value begins with "Bearer " (7 characters); the
\* token is the value with exactly that prefix removed. "abc123" and a missing
\* cookie yield no token.
C11_CookieExtraction ==
    authLast.op = "extract" =>
        /\ (authLast.out # None) <=>
               (authLast.cookie # None /\ StartsWith(authLast.cookie.v, BearerPrefix))
        /\ authLast.out # None => BearerPrefix \o authLast.out.v = authLast.cookie.v

\* "Bearer abc123" gave "abc123".
C11_Witness ==
    /\ authLast.op = "extract"
    /\ authLast.cookie = Some(BearerPrefix \o Garbage)
    /\ authLast.out = Some(Garbage)

\* C12 (as claimed): on POST /token and on POST /login a wrong password for an
\* existing email is answered with a 401 identical to the answer for an unknown
\* email, and no token is issued and no cookie set.
C12_Original ==
    /\ (authLast.op = "token" /\ authLast.email = AuthEmail /\ authLast.password # PwA)
          => /\ authLast.out.raised
             /\ authLast.out.exc.status = 401
             /\ authLast.out =
                   login_for_access_token(users, GhostEmail, authLast.password,
                                          bcryptStrict, authLast.at)
    /\ (authLast.op = "login" /\ authLast.email = AuthEmail /\ authLast.password # PwA)
          => /\ authLast.out.status = 401
             /\ authLast.out.set_cookie = None
             /\ authLast.out =
                   login(users, GhostEmail, authLast.password, bcryptStrict, authLast.at)

----------------------------------------------------------------------------
(* The persistent store: crud.py *)

Max(a, b) == IF a >= b THEN a ELSE b
Reverse(s) == [i \in 1..Len(s) |-> s[Len(s) + 1 - i]]
\* list[:n] and list[-n:]
FirstN(s, n) == SubSeq(s, 1, Min(n, Len(s)))
\* (HeadN: the first n are kept where the last n are meant.)
HeadN(s, n) == SubSeq(s, 1, Min(n, Len(s)))
LastN(s, n) == SubSeq(s, Max(1, Len(s) - n + 1), Len(s))

\* database.py SessionLocal = sessionmaker(autocommit=False, ...): a session is
\* open until close(), and inside a transaction (holding a connection of the
\* engine) from its first statement to the next commit or close
SessionLocal == [closed |-> FALSE, in_transaction |-> FALSE]
db_query(db) == [db EXCEPT !.in_transaction = TRUE]
db_commit(db) == [db EXCEPT !.in_transaction = FALSE]
db_refresh(db) == [db EXCEPT !.in_transaction = TRUE]
db_close(db) == [db EXCEPT !.closed = TRUE, !.in_transaction = FALSE]

\* The session of a chat request (database.py get_db yields it before the
\* handler runs and closes it after the handler returned) at the await of
\* call_llm_api: get_current_user and get_project_by_id queried, create_message
\* committed and refreshed, get_prompts_by_project and get_messages_by_project
\* queried
SessionAtAwait ==
    db_query(db_query(db_refresh(db_commit(db_query(db_query(SessionLocal))))))

\* crud.py create_user: the users table with the new row; models.py User.email
\* is unique=True, so the commit of a second row with the email is refused.
\* (create_user_not_unique: the column carries no unique constraint.)
create_user_not_unique(us, email, password, s, strict, t) ==
    LET h == hash_password(password, s, strict)
    IN IF h.raised THEN h
       ELSE Ok(Append(us, [email |-> email, password_hash |-> h.value, created_at |-> t]))
create_user(us, email, password, s, strict, t) ==
    LET h == hash_password(password, s, strict)
    IN IF h.raised THEN h
       ELSE IF UserByEmail(us, email) # None THEN Raise("IntegrityError")
       ELSE Ok(Append(us, [email |-> email, password_hash |-> h.value, created_at |-> t]))

\* crud.py get_user_by_email
get_user_by_email(us, email) == UserByEmail(us, email)

\* crud.py create_project: the projects table with the new row
create_project(ps, user_id) == Append(ps, [id |-> Len(ps) + 1, user_id |-> user_id])

\* crud.py get_project_by_id(db, project_id, user_id): the row of that id AND that owner.
\* (get_project_by_id_any_owner: the owner is not part of the filter.)
get_project_by_id_any_owner(ps, project_id, user_id) ==
    IF project_id \in 1..Len(ps) THEN Some(ps[project_id]) ELSE None
get_project_by_id(ps, project_id, user_id) ==
    IF project_id \in 1..Len(ps) /\ ps[project_id].user_id = user_id
    THEN Some(ps[project_id])
    ELSE None

\* crud.py create_prompt, get_prompts_by_project
create_prompt(prs, text, project_id) ==
    Append(prs, [id |-> Len(prs) + 1, project_id |-> project_id, text |-> text])
get_prompts_by_project(prs, project_id) ==
    SelectSeq(prs, LAMBDA r : r.project_id = project_id)

\* crud.py create_message: rows are appended in timestamp order
create_message(msgs, role, content, project_id) ==
    Append(msgs, [id |-> Len(msgs) + 1, project_id |-> project_id,
                  role |-> role, content |-> content])

\* The limit get_messages_by_project defaults to
DefaultLimit == 50

\* crud.py get_messages_by_project: filter by project, ORDER BY timestamp DESC, LIMIT.
\* (get_messages_any_project: the project is not part of the filter.)
get_messages_any_project(msgs, project_id, limit) ==
    FirstN(Reverse(msgs), limit)
get_messages_by_project(msgs, project_id, limit) ==
    FirstN(Reverse(SelectSeq(msgs, LAMBDA r : r.project_id = project_id)), limit)

----------------------------------------------------------------------------
(* ConversationContextBuilder and CompletionGateway: main.py call_llm_api,   *)
(* chatbot.py ChatBot                                                        *)

\* chatbot.py ChatBot.__init__: the instance, or ValueError without an API key
ChatBotInit(api_key) ==
    IF api_key = None \/ api_key.v = "" THEN Raise("ValueError") ELSE Ok("ChatBot")

\* main.py lines 45-50: chatbot = ChatBot(...), or None on ValueError
Startup(api_key) ==
    IF ChatBotInit(api_key).raised THEN None ELSE Some(ChatBotInit(api_key).value)

default_system_prompt == "You are Grok, a helpful AI assistant"

\* How many stored turns chat_with_context keeps
ContextWindow == 10

\* main.py call_llm_api lines 60-66: {"role": msg.role, "content": msg.content};
\* src remembers the row the entry was made from (not part of the payload sent)
FormatMessages(project_messages) ==
    [i \in 1..Len(project_messages) |->
        [role |-> project_messages[i].role, content |-> project_messages[i].content,
         src |-> project_messages[i].id]]

\* dict.get(key, default)
DictGet(d, key, default) == IF key \in DOMAIN d THEN d[key] ELSE default

\* chatbot.py chat_with_context lines 109-117: project_messages[-10:], each
\* entry rebuilt as {"role": msg.get("role", "user"), "content": msg.get("content", "")}
conversation_history(project_messages) ==
    IF project_messages = <<>> THEN <<>>
    ELSE LET recent_messages == LastN(project_messages, ContextWindow)
         IN [i \in 1..Len(recent_messages) |->
                [role |-> DictGet(recent_messages[i], "role", "user"),
                 content |-> DictGet(recent_messages[i], "content", ""),
                 src |-> recent_messages[i].src]]

\* chatbot.py chat lines 44-55: the "messages" of the request payload.
\* (ChatPayloadOptional: no system entry is made when no instruction is given.)
ChatPayloadOptional(message, system_prompt, history) ==
    (IF system_prompt # ""
     THEN <<[role |-> "system", content |-> system_prompt, src |-> 0]>>
     ELSE <<>>)
    \o history
    \o <<[role |-> "user", content |-> message, src |-> 0]>>
ChatPayload(message, system_prompt, history) ==
    <<[role |-> "system",
       content |-> IF system_prompt # "" THEN system_prompt ELSE default_system_prompt,
       src |-> 0]>>
    \o history
    \o <<[role |-> "user", content |-> message, src |-> 0]>>

\* chatbot.py chat_with_context: the "messages" it has chat send
chat_with_context(message, system_prompt, project_messages) ==
    ChatPayload(message, system_prompt, conversation_history(project_messages))

\* JSON values: a string, or an object (a function from its keys); {} is <<>>
JStr(s) == [t |-> "str", s |-> s]
JObj(r) == [t |-> "obj", o |-> r]
EmptyDict == <<>>

\* How the outbound POST ends: a response (status, whether its content-type
\* starts with application/json, body), or an exception of httpx
PostResponse(status_code, json_ctype, body) ==
    [k |-> "response", status_code |-> status_code, json_ctype |-> json_ctype, body |-> body]
Exc(type, msg) == [type |-> type, msg |-> msg]
PostRaises(type, msg) == [k |-> "raise", exc |-> Exc(type, msg)]

\* Response bodies: text that is not JSON, or a JSON value
TextBody == [k |-> "text"]
JsonBody(v) == [k |-> "json", v |-> v]

\* response.json()
ResponseJson(body) ==
    IF body.k = "json" THEN Ok(body.v)
    ELSE Raise(Exc("JSONDecodeError", "Expecting value: line 1 column 1 (char 0)"))

\* str.strip() of a text with or without blanks around it
Padded(text) == [pad |-> TRUE, text |-> text]
Unpadded(text) == [pad |-> FALSE, text |-> text]
Strip(c) == c.text

\* httpx.TimeoutException and its subclasses
TimeoutExceptions == {"TimeoutException", "ConnectTimeout", "ReadTimeout"}

\* chatbot.py chat lines 66-85, the body of the try: Ok(the string returned)
\* or the exception raised. data["choices"][0]["message"]["content"] is the
\* value under "choices" here.
chat_try(ev) ==
    IF ev.k = "raise" THEN Raise(ev.exc)
    ELSE IF ev.status_code = 200
    THEN LET data == ResponseJson(ev.body)
         IN IF data.raised THEN data
            ELSE IF data.value.t # "obj"
            THEN Raise(Exc("TypeError", "string indices must be integers"))
            ELSE IF "choices" \notin DOMAIN data.value.o
            THEN Raise(Exc("KeyError", "'choices'"))
            ELSE Ok(Strip(data.value.o.choices))
    ELSE LET error_data == IF ev.json_ctype THEN ResponseJson(ev.body)
                           ELSE Ok(JObj(EmptyDict))
         IN IF error_data.raised THEN error_data
            ELSE IF error_data.value.t # "obj"
            THEN Raise(Exc("AttributeError", "'str' object has no attribute 'get'"))
            ELSE LET error == DictGet(error_data.value.o, "error", JObj(EmptyDict))
                 IN IF error.t # "obj"
                    THEN Raise(Exc("AttributeError", "'str' object has no attribute 'get'"))
                    ELSE Ok("OpenRouter API Error: "
                            \o DictGet(error.o, "message",
                                       "HTTP " \o ToString(ev.status_code)))

\* chatbot.py chat lines 42-94: the try and its except clauses.
\* (chat_generic_only: the clauses for TimeoutException and ConnectError are
\* missing, the last clause takes their cases.)
chat_generic_only(ev) ==
    LET r == chat_try(ev)
    IN IF ~r.raised THEN r
       ELSE IF r.exc.type = "HTTPStatusError"
       THEN Ok("HTTP Error " \o r.exc.msg)
       ELSE Ok("An unexpected error occurred: " \o r.exc.msg)
chat(ev) ==
    LET r == chat_try(ev)
    IN IF ~r.raised THEN r
       ELSE IF r.exc.type \in TimeoutExceptions
       THEN Ok("Request timeout. Please try again later.")
       ELSE IF r.exc.type = "ConnectError"
       THEN Ok("Connection error. Please check your internet connection.")
       ELSE IF r.exc.type = "HTTPStatusError"
       THEN Ok("HTTP Error " \o r.exc.msg)
       ELSE Ok("An unexpected error occurred: " \o r.exc.msg)

\* Ways the outbound POST ends, by name
PostEnd(outcome) ==
    CASE outcome = "ok" ->
             PostResponse(200, TRUE, JsonBody(JObj([choices |-> Padded("reply")])))
      [] outcome = "ok_malformed" ->
             PostResponse(200, TRUE, JsonBody(JObj([id |-> "gen-1"])))
      [] outcome = "timeout" -> PostRaises("ReadTimeout", "")
      [] outcome = "connect_error" -> PostRaises("ConnectError", "All connection attempts failed")
      [] outcome = "status_json" ->
             PostResponse(429, TRUE,
                          JsonBody(JObj([error |-> JObj([message |-> "rate limited"])])))
      [] outcome = "status_plain" -> PostResponse(502, FALSE, TextBody)

\* chatbot.py chat lines 66-94: the POSTs chat sends for the turn after its
\* POST ended in outcome. Every branch and every except clause returns, there
\* is no loop around client.post.
\* (further_posts_on_failure: a failed POST is sent once more.)
further_posts_on_failure(user_message, outcome) ==
    IF outcome \in {"timeout", "connect_error", "status_json", "status_plain"}
    THEN <<[user_message |-> user_message]>>
    ELSE <<>>
further_posts(user_message, outcome) == <<>>

NotInitialized ==
    "Error: ChatBot not initialized. Please check your OpenRouter API key configuration."

\* The outcome named when no outbound call is made
NoPost == "none"

\* main.py call_llm_api lines 53-75, the outbound POST ending in outcome
call_llm_api(cb, outcome) ==
    IF cb = None THEN Ok(NotInitialized)
    ELSE LET response == chat(PostEnd(outcome))
         IN IF response.raised
            THEN Ok("Error calling OpenRouter API: " \o response.exc.msg)
            ELSE response

\* main.py chat_endpoint lines 310-317: the reply text and the assistant turn
\* saved. (SaveReplyUnguarded: call_llm_api without its "if not chatbot" and
\* both try/except gone, so that a missing ChatBot ends the request in an
\* AttributeError before the save.)
SaveReplyUnguarded(msgs, cb, outcome, project_id) ==
    IF cb = None THEN msgs
    ELSE create_message(msgs, "assistant", chat(PostEnd(outcome)).value, project_id)
SaveReply(msgs, cb, outcome, project_id) ==
    LET r == call_llm_api(cb, outcome)
        response_text == IF r.raised THEN "Error calling LLM API: " \o r.exc.msg
                         ELSE r.value
    IN create_message(msgs, "assistant", response_text, project_id)

\* main.py chat_endpoint lines 303-308 and call_llm_api, chat_with_context, chat
\* up to the outbound POST: the "messages" sent, built from the tables as they
\* are after the user turn was saved
\* (ChatContextBeforeSave: the history is read before the user turn is saved.)
ChatContextBeforeSave(msgs, project_id, message) ==
    LET found == get_prompts_by_project(prompts, project_id)
        system_prompt == IF found # <<>> THEN found[1].text ELSE ""
        previous_messages == get_messages_by_project(SubSeq(msgs, 1, Len(msgs) - 1),
                                                     project_id, DefaultLimit)
    IN chat_with_context(message, system_prompt, FormatMessages(previous_messages))
ChatContext(msgs, project_id, message) ==
    LET found == get_prompts_by_project(prompts, project_id)
        system_prompt == IF found # <<>> THEN found[1].text ELSE ""
        previous_messages == get_messages_by_project(msgs, project_id, DefaultLimit)
    IN chat_with_context(message, system_prompt, FormatMessages(previous_messages))

----------------------------------------------------------------------------
(* SpecCtx: chat_with_context applied to lists of prior turns of a bounded   *)
(* set, and the chat endpoint's context for message tables of a bounded set. *)

\* How many prior turns a list holds at most
MaxPrior == 15

ChatMessage == "hi"
PromptText == "be brief"

\* The i-th prior turn as call_llm_api hands it over; odd = "missing" leaves
\* the role key out, any other odd is the role itself
PriorTurn(i, odd) ==
    IF odd = "missing" THEN [content |-> ToString(i), src |-> i]
    ELSE [role |-> odd, content |-> ToString(i), src |-> i]

\* The role of the i-th turn of an ordinary conversation
TurnRole(i) == IF i % 2 = 1 THEN "user" ELSE "assistant"

\* n prior turns, oldest first, user and assistant in turn, the k-th (if any)
\* with the role odd
PriorTurns(n, k, odd) ==
    [i \in 1..n |-> IF i = k THEN PriorTurn(i, odd) ELSE PriorTurn(i, TurnRole(i))]

TurnLists ==
    {PriorTurns(n, 0, "user") : n \in 0..MaxPrior}
        \cup UNION {{PriorTurns(n, k, odd) : k \in 1..n, odd \in {"missing", "tool", "system"}} :
                       n \in 1..MaxPrior}

\* The prompts table: empty, a prompt of project 1, a prompt of another
\* project, two prompts of project 1
PromptTables ==
    {<<>>,
     create_prompt(<<>>, PromptText, 1),
     create_prompt(<<>>, PromptText, 2),
     create_prompt(create_prompt(<<>>, PromptText, 1), "be kind", 1)}

InitCtx ==
    /\ users = <<>>
    /\ projects = <<>>
    /\ prompts \in PromptTables
    /\ messages = <<>>
    /\ now = 0
    /\ issued = {}
    /\ chatbot = Some("ChatBot")
    /\ inflight = <<>>
    /\ resp = NoResp
    /\ usedSalts = {}
    /\ bcryptStrict = FALSE
    /\ authLast = NoCall
    /\ pwHashes = <<>>
    /\ pwLast = NoCall
    /\ gwLast = NoCall
    /\ files = <<>>
    /\ posts = <<>>
    /\ logouts = None
    /\ registering = <<>>
    /\ req = NoReq

\* chat_with_context(message, system_prompt, turns), up to the outbound POST
CtxBuild(turns, system_prompt, message) ==
    /\ gwLast' = [op |-> "context", turns |-> turns, system_prompt |-> system_prompt,
                  message |-> message,
                  out |-> chat_with_context(message, system_prompt, turns)]
    /\ UNCHANGED <<mainVars, now, issued, authVars, bcryptStrict, usedSalts, pwVars, webVars>>

\* The messages table after n turns of a conversation in project 1: create_message
\* called n times, user and assistant in turn
StoredTurns(n) ==
    [i \in 1..n |-> [id |-> i, project_id |-> 1, role |-> TurnRole(i),
                     content |-> ToString(i)]]

\* chat_endpoint lines 300-312 on a project with n stored turns: the user turn
\* is saved, then the context is built from the table
CtxEndpoint(n, message) ==
    /\ LET saved == create_message(StoredTurns(n), "user", message, 1)
       IN gwLast' = [op |-> "endpoint", table |-> saved, project_id |-> 1,
                     message |-> message, out |-> ChatContext(saved, 1, message)]
    /\ UNCHANGED <<mainVars, now, issued, authVars, bcryptStrict, usedSalts, pwVars, webVars>>

\* Response bodies: a completion (with and without blanks around the text),
\* JSON without choices, the provider's error object, an error object without
\* message, an error that is a string, JSON without error, a JSON string, text
Bodies ==
    {JsonBody(JObj([choices |-> Padded("reply")])),
     JsonBody(JObj([choices |-> Unpadded("reply")])),
     JsonBody(JObj([id |-> "gen-1"])),
     JsonBody(JObj([error |-> JObj([message |-> "rate limited"])])),
     JsonBody(JObj([error |-> JObj([code |-> "429"])])),
     JsonBody(JObj([error |-> JStr("rate limited")])),
     JsonBody(JObj([detail |-> "Bad Gateway"])),
     JsonBody(JStr("Bad Gateway")),
     TextBody}

\* What client.post can end in: a response of the provider, or an exception
\* of httpx raised before any response
PostEnds ==
    {PostResponse(st, ct, b) : st \in {200, 429, 502}, ct \in BOOLEAN, b \in Bodies}
        \cup {PostRaises("TimeoutException", ""), PostRaises("ConnectTimeout", ""),
              PostRaises("ReadTimeout", ""),
              PostRaises("ConnectError", "All connection attempts failed"),
              PostRaises("ReadError", "Connection reset by peer"),
              PostRaises("RemoteProtocolError", "Server disconnected")}

\* chat, from the point where client.post ends in ev
CtxChat(ev) ==
    /\ gwLast' = [op |-> "chat", ev |-> ev, out |-> chat(ev)]
    /\ UNCHANGED <<mainVars, now, issued, authVars, bcryptStrict, usedSalts, pwVars, webVars>>

NextCtx ==
    \/ \E turns \in TurnLists, sp \in {"", PromptText} : CtxBuild(turns, sp, ChatMessage)
    \/ \E ev \in PostEnds : CtxChat(ev)
    \/ \E n \in 0..MaxPrior : CtxEndpoint(n, ChatMessage)

SpecCtx == InitCtx /\ [][NextCtx]_vars

\* C14: for N prior turns given oldest first, the built context is the system
\* entry, then exactly the last min(N, 10) prior turns in their order, then the
\* new user message as the last entry; with N = 15, turns 6..15.
C14_ContextWindow ==
    gwLast.op = "context" =>
        LET n == Len(gwLast.turns)
            kept == Min(n, 10)
            out == gwLast.out
        IN /\ Len(out) = kept + 2
           /\ out[1].role = "system"
           /\ \A j \in 1..kept :
                 /\ out[1 + j].src = gwLast.turns[n - kept + j].src
                 /\ out[1 + j].content = gwLast.turns[n - kept + j].content
           /\ out[Len(out)].role = "user"
           /\ out[Len(out)].content = gwLast.message
           /\ out[Len(out)].src = 0

\* 15 prior turns were given and turns 6..15 are in the context.
C14_Witness ==
    /\ gwLast.op = "context"
    /\ Len(gwLast.turns) = 15
    /\ Len(gwLast.out) = 12
    /\ \A j \in 1..10 : gwLast.out[1 + j].src = 5 + j

\* C16 (as claimed): every entry of the built context carries a role, and a
\* prior turn whose role is missing, or is neither user nor assistant, is
\* emitted with role "user".
C16_Original ==
    gwLast.op = "context" =>
        \A j \in 2..(Len(gwLast.out) - 1) :
            LET entry == gwLast.out[j]
                turn == gwLast.turns[entry.src]
            IN /\ "role" \in DOMAIN entry
               /\ ("role" \notin DOMAIN turn \/ turn.role \notin {"user", "assistant"})
                     => entry.role = "user"

ProviderMessage(ev) ==
    IF ~ev.json_ctype \/ ev.body.k # "json" \/ ev.body.v.t # "obj"
          \/ "error" \notin DOMAIN ev.body.v.o THEN None
    ELSE LET error == ev.body.v.o.error
         IN IF error.t = "str" THEN Some(error.s)
            ELSE IF "message" \in DOMAIN error.o THEN Some(error.o.message)
            ELSE None

\* A 200 response whose body is a completion
WellFormed(ev) ==
    /\ ev.body.k = "json"
    /\ ev.body.v.t = "obj"
    /\ "choices" \in DOMAIN ev.body.v.o

UnexpectedTexts ==
    {"An unexpected error occurred: " \o m :
        m \in {"'choices'", "Expecting value: line 1 column 1 (char 0)",
               "string indices must be integers", "'str' object has no attribute 'get'",
               "Connection reset by peer", "Server disconnected"}}

\* C20 (as claimed): chat never raises; a non-200 response yields a string
\* carrying the provider's error message, or "HTTP <status>" when the body is
\* not structured JSON; a malformed 200 body or any other exception yields an
\* "unexpected error" string; timeouts and connection failures their own notice.
C20_Original ==
    gwLast.op = "chat" =>
        LET ev == gwLast.ev
        IN /\ ~gwLast.out.raised
           /\ (ev.k = "response" /\ ev.status_code # 200) =>
                 gwLast.out.value =
                     "OpenRouter API Error: "
                         \o (IF ProviderMessage(ev) # None
                             THEN ProviderMessage(ev).v
                             ELSE "HTTP " \o ToString(ev.status_code))
           /\ (ev.k = "response" /\ ev.status_code = 200 /\ WellFormed(ev)) =>
                 gwLast.out.value = ev.body.v.o.choices.text
           /\ (ev.k = "response" /\ ev.status_code = 200 /\ ~WellFormed(ev)) =>
                 gwLast.out.value \in UnexpectedTexts
           /\ (ev.k = "raise" /\ ev.exc.type \in TimeoutExceptions) =>
                 gwLast.out.value = "Request timeout. Please try again later."
           /\ (ev.k = "raise" /\ ev.exc.type = "ConnectError") =>
                 gwLast.out.value =
                     "Connection error. Please check your internet connection."
           /\ (ev.k = "raise" /\ ev.exc.type \notin TimeoutExceptions \cup {"ConnectError"}) =>
                 gwLast.out.value \in UnexpectedTexts

\* C15 (as claimed): in the chat endpoint, for a project with more than 10
\* stored turns, the history part of the context is exactly the 10 most recent
\* stored turns of the project, oldest first.
C15_Original ==
    (gwLast.op = "endpoint" /\ Len(gwLast.table) > 10) =>
        LET stored == gwLast.table
            history == SubSeq(gwLast.out, 2, Len(gwLast.out) - 1)
        IN /\ Len(history) = 10
           /\ \A j \in 1..10 : history[j].src = stored[Len(stored) - 10 + j].id

\* C26 (as claimed): in a chat turn the new user message is in the context
\* exactly once, as its final entry; the history part holds only turns stored
\* before the chat turn began, never the user turn just saved.
C26_Original ==
    gwLast.op = "endpoint" =>
        LET saved == gwLast.table
            just_saved == saved[Len(saved)].id
            context == gwLast.out
            history == SubSeq(context, 2, Len(context) - 1)
        IN /\ context[Len(context)].role = "user"
           /\ context[Len(context)].content = gwLast.message
           /\ \A j \in 1..Len(history) : history[j].src # just_saved

----------------------------------------------------------------------------
(* Spec: the application's request handlers (main.py)                        *)

Emails == {"a@x.com", "b@x.com"}

\* A whole session lifetime and a minute (the exp instant itself is SpecAuth's)
SessionStep == ACCESS_TOKEN_EXPIRE_MINUTES + 1

\* The tokens clients can hold: the server keeps no record of the tokens it
\* issues, and register and login hand one to an identity at any instant from
\* its registration on: create_access_token({"sub": email}) at those instants.
SessionTokens ==
    UNION {{create_access_token([sub |-> users[i].email], None, t) :
                t \in {d \in 0..now : d % SessionStep = 0 /\ d >= users[i].created_at}} :
            i \in 1..Len(users)}

\* The access_token cookies a client may send: none, one the server set, its
\* token without the "Bearer " prefix, a token signed with another secret
ClientCookies ==
    {None}
        \cup {Some(BearerPrefix \o tok) : tok \in SessionTokens}
        \cup {Some(tok) : tok \in SessionTokens}
        \cup {Some(BearerPrefix \o JwtEncode([sub |-> e, exp |-> now + 1],
                                             "attacker-secret", ALGORITHM)) : e \in Emails}

\* A freshly started application on an empty database; the API key is set or
\* not. (Passwords here are short, so both bcrypt builds behave alike.)
Init ==
    /\ users = <<>>
    /\ projects = <<>>
    /\ prompts = <<>>
    /\ messages = <<>>
    /\ now = 0
    /\ issued = {}
    /\ \E key \in {None, Some("sk-or-key")} : chatbot = Startup(key)
    /\ inflight = <<>>
    /\ resp = NoResp
    /\ usedSalts = {}
    /\ bcryptStrict = FALSE
    /\ authLast = NoCall
    /\ pwHashes = <<>>
    /\ pwLast = NoCall
    /\ gwLast = NoCall
    /\ files = <<>>
    /\ posts = <<>>
    /\ logouts = None
    /\ registering = <<>>
    /\ req = NoReq

\* main.py register (POST /register)
Register(email, password) ==
    /\ IF get_user_by_email(users, email) # None
       THEN /\ resp' = Response("register", 200, "Email already registered", None)
            /\ UNCHANGED <<users, usedSalts>>
       ELSE /\ usedSalts # Salts
            /\ LET made == create_user(users, email, password, FreshSalt, bcryptStrict, now)
                   access_token == create_access_token([sub |-> email], None, now)
               IN /\ ~made.raised
                  /\ users' = made.value
                  /\ usedSalts' = usedSalts \cup {FreshSalt}
                  /\ resp' = Response("register", 303, "/dashboard",
                                      Some(SessionCookie(access_token)))
    /\ UNCHANGED <<projects, prompts, messages, chatbot, inflight,
                   now, issued, authVars, bcryptStrict, pwVars, gwVars, webVars>>

\* main.py login (POST /login)
Login(email, password) ==
    /\ resp' = login(users, email, password, bcryptStrict, now)
    /\ UNCHANGED <<users, projects, prompts, messages, chatbot, inflight,
                   now, issued, authVars, bcryptStrict, usedSalts, pwVars, gwVars, webVars>>

\* The answer of a route whose dependency get_current_user raised
Denied(route, exc) == Response(route, exc.status, exc.detail, None)

\* main.py projects_handler, POST /projects with form field name
CreateProject(cookie, name) ==
    /\ LET current_user == get_current_user(cookie, users, now)
       IN IF current_user.raised
          THEN /\ resp' = Denied("projects", current_user.exc)
               /\ UNCHANGED projects
          ELSE IF name = ""
          THEN /\ resp' = Response("projects", 400, "Project name is required", None)
               /\ UNCHANGED projects
          ELSE /\ Len(projects) < MaxProjects
               /\ projects' = create_project(projects, current_user.value.id)
               /\ resp' = Response("projects", 303, "/projects/{id}", cookie)
    /\ UNCHANGED <<users, prompts, messages, chatbot, inflight,
                   now, issued, authVars, bcryptStrict, usedSalts, pwVars, gwVars, webVars>>

\* main.py create_prompt_endpoint, POST /projects/{project_id}/prompts
CreatePrompt(cookie, project_id, text) ==
    /\ LET current_user == get_current_user(cookie, users, now)
       IN IF current_user.raised
          THEN /\ resp' = Denied("prompts", current_user.exc)
               /\ UNCHANGED prompts
          ELSE IF get_project_by_id(projects, project_id, current_user.value.id) = None
          THEN /\ resp' = Response("prompts", 404, "Project not found", None)
               /\ UNCHANGED prompts
          ELSE /\ Len(prompts) < MaxPrompts
               /\ prompts' = create_prompt(prompts, text, project_id)
               /\ resp' = Response("prompts", 303, "/projects/{id}", cookie)
    /\ UNCHANGED <<users, projects, messages, chatbot, inflight,
                   now, issued, authVars, bcryptStrict, usedSalts, pwVars, gwVars, webVars>>

\* main.py chat_endpoint, POST /projects/{project_id}/chat, up to the point where
\* it is suspended in the outbound call (lines 296-312); without a ChatBot,
\* call_llm_api returns at once and the handler runs to its end.
ChatBegin(cookie, project_id, message) ==
    /\ LET current_user == get_current_user(cookie, users, now)
       IN IF current_user.raised
          THEN /\ resp' = Denied("chat", current_user.exc)
               /\ UNCHANGED <<messages, inflight, posts>>
          ELSE IF get_project_by_id(projects, project_id, current_user.value.id) = None
          THEN /\ resp' = Response("chat", 404, "Project not found", None)
               /\ UNCHANGED <<messages, inflight, posts>>
          ELSE LET saved == create_message(messages, "user", message, project_id)
               IN /\ Len(messages) + 2 * (Len(inflight) + 1) <= MaxMessages
                  /\ IF chatbot = None
                     THEN /\ messages' = SaveReply(saved, chatbot, NoPost, project_id)
                          /\ resp' = Response("chat", 303, "/projects/{id}", cookie)
                          /\ UNCHANGED <<inflight, posts>>
                     ELSE /\ Len(inflight) < MaxInflight
                          /\ messages' = saved
                          /\ inflight' = Append(inflight,
                                 [user_id |-> current_user.value.id,
                                  project_id |-> project_id,
                                  cookie |-> cookie,
                                  at |-> now,
                                  user_message |-> saved[Len(saved)].id,
                                  db |-> SessionAtAwait,
                                  payload |-> ChatContext(saved, project_id, message)])
                          /\ posts' = Append(posts, [user_message |-> saved[Len(saved)].id])
                          /\ UNCHANGED resp
    /\ UNCHANGED <<users, projects, prompts, chatbot, now, issued, authVars,
                   bcryptStrict, usedSalts, pwVars, gwVars, files, logouts, registering, req>>

RemoveAt(s, i) == SubSeq(s, 1, i - 1) \o SubSeq(s, i + 1, Len(s))

\* main.py chat_endpoint lines 312-324: the outbound call of the i-th suspended
\* request ends in outcome; the assistant turn is saved and the client redirected
ChatFinish(i, outcome) ==
    /\ i \in 1..Len(inflight)
    /\ messages' = SaveReply(messages, chatbot, outcome, inflight[i].project_id)
    /\ resp' = Response("chat", 303, "/projects/{id}", inflight[i].cookie)
    /\ inflight' = RemoveAt(inflight, i)
    /\ posts' = posts \o further_posts(inflight[i].user_message, outcome)
    /\ UNCHANGED <<users, projects, prompts, chatbot, now, issued, authVars,
                   bcryptStrict, usedSalts, pwVars, gwVars, files, logouts, registering, req>>

\* A whole session lifetime passes: every token issued before has expired
TickSession == Tick(SessionStep)

Next ==
    \/ TickSession
    \/ \E e \in Emails : Register(e, PwA)
    \/ \E e \in Emails, p \in {PwA, PwB} : Login(e, p)
    \/ \E c \in ClientCookies, name \in {"", "notes"} : CreateProject(c, name)
    \/ \E c \in ClientCookies, pid \in 1..MaxProjects : CreatePrompt(c, pid, PromptText)
    \/ \E c \in ClientCookies, pid \in 1..MaxProjects : ChatBegin(c, pid, ChatMessage)
    \/ \E i \in 1..MaxInflight, o \in {"ok", "timeout"} : ChatFinish(i, o)

Spec == Init /\ [][Next]_vars

----------------------------------------------------------------------------
(* SpecChat: the chat endpoint alone, for a signed-in owner of two projects, *)
(* with every way the outbound call can end.                                 *)

ChatUsers == create_user(<<>>, AuthEmail, PwA, 1, FALSE, 0).value
ChatProjects == create_project(create_project(<<>>, 1), 1)

\* The owner's session cookie, as register set it
OwnerCookie == Some(SessionCookie(create_access_token([sub |-> AuthEmail], None, 0)))

\* The ways the outbound POST ends
GatewayOutcomes ==
    {"ok", "ok_malformed", "timeout", "connect_error", "status_json", "status_plain"}

InitChat ==
    /\ users = ChatUsers
    /\ projects = ChatProjects
    /\ prompts = <<>>
    /\ messages = <<>>
    /\ now = 0
    /\ issued = {}
    /\ \E key \in {None, Some("sk-or-key")} : chatbot = Startup(key)
    /\ inflight = <<>>
    /\ resp = NoResp
    /\ usedSalts = {1}
    /\ bcryptStrict = FALSE
    /\ authLast = NoCall
    /\ pwHashes = <<>>
    /\ pwLast = NoCall
    /\ gwLast = NoCall
    /\ files = <<>>
    /\ posts = <<>>
    /\ logouts = None
    /\ registering = <<>>
    /\ req = NoReq

ChatFinishes == \E i \in 1..MaxInflight, o \in GatewayOutcomes : ChatFinish(i, o)

NextChat ==
    \/ \E c \in {None, OwnerCookie}, pid \in 1..(Len(ChatProjects) + 1) :
           ChatBegin(c, pid, ChatMessage)
    \/ ChatFinishes

SpecChat == InitChat /\ [][NextChat]_vars

\* The outbound POST carries timeout=30.0 (chatbot.py line 76) and the handler
\* is a coroutine the event loop resumes: a suspended request is completed.
SpecChatFair == SpecChat /\ WF_vars(ChatFinishes)

TimeoutNotice == "Request timeout. Please try again later."
ConnectionNotice == "Connection error. Please check your internet connection."

\* C18: when the outbound call of a suspended chat request times out, or the
\* connection fails before any response, the gateway returns its fixed notice
\* without raising, the turns saved before (the request's user turn among them)
\* stay as they were, and the notice is saved as the assistant turn of the
\* request's project.
C18_TimeoutFallback ==
    [][\A i \in 1..MaxInflight, o \in {"timeout", "connect_error"} :
          ChatFinish(i, o) =>
              LET notice == IF o = "timeout" THEN TimeoutNotice ELSE ConnectionNotice
                  k == inflight[i].user_message
              IN /\ chat(PostEnd(o)) = Ok(notice)
                 /\ call_llm_api(chatbot, o) = Ok(notice)
                 /\ Len(messages') = Len(messages) + 1
                 /\ SubSeq(messages', 1, Len(messages)) = messages
                 /\ messages'[k].role = "user"
                 /\ messages'[k].content = ChatMessage
                 /\ messages'[k].project_id = inflight[i].project_id
                 /\ messages'[Len(messages')].role = "assistant"
                 /\ messages'[Len(messages')].content = notice
                 /\ messages'[Len(messages')].project_id = inflight[i].project_id
                 /\ resp'.status = 303]_vars

\* A timeout and a failed connection have each been answered
C18_Witness ==
    /\ \E k \in 2..Len(messages) :
          /\ messages[k].role = "assistant" /\ messages[k].content = TimeoutNotice
          /\ messages[k - 1].role = "user"
    /\ \E k \in 2..Len(messages) :
          /\ messages[k].role = "assistant" /\ messages[k].content = ConnectionNotice
          /\ messages[k - 1].role = "user"

\* Turn k is a user turn a chat request saved
UserTurnSaved(k) == k \in 1..Len(messages) /\ messages[k].role = "user"

\* The request that saved turn k is still suspended in its outbound call
Pending(k) == \E i \in 1..Len(inflight) : inflight[i].user_message = k

\* The request that saved turn k has ended and an assistant turn of the same
\* project was saved after turn k
ReplySaved(k) ==
    /\ UserTurnSaved(k)
    /\ ~Pending(k)
    /\ \E j \in (k + 1)..Len(messages) :
          /\ messages[j].role = "assistant"
          /\ messages[j].project_id = messages[k].project_id

\* C19: every chat request that saves a user turn eventually saves an
\* assistant turn for the same project, however the gateway call ends and
\* also without a ChatBot; no request ends with its user turn saved and no
\* reply saved.
C19_ReplyEventually ==
    /\ \A k \in 1..MaxMessages : UserTurnSaved(k) ~> ReplySaved(k)
    /\ [](\A k \in 1..MaxMessages : (UserTurnSaved(k) /\ ~Pending(k)) => ReplySaved(k))

\* Two requests were answered although the provider's answers were no
\* completions: a 200 without choices, and a 429
C19_Witness ==
    /\ inflight = <<>>
    /\ \E k, l \in 1..Len(messages) :
          /\ ReplySaved(k) /\ ReplySaved(l)
          /\ messages[k + 1].content = "An unexpected error occurred: 'choices'"
          /\ messages[l + 1].content = "OpenRouter API Error: rate limited"

\* How many POSTs were sent to the provider for the chat turn of user turn k
PostsFor(k) == Cardinality({n \in 1..Len(posts) : posts[n].user_message = k})

\* C21: each chat turn makes at most one outbound completion request, however
\* the request ends: one while or after the call is pending, none without a
\* ChatBot, and never a second one after a failure.
C21_SingleAttempt ==
    \A k \in 1..Len(messages) :
        /\ PostsFor(k) <= 1
        /\ messages[k].role = "assistant" => PostsFor(k) = 0
        /\ (messages[k].role = "user" /\ chatbot # None) => PostsFor(k) = 1
        /\ (messages[k].role = "user" /\ chatbot = None) => PostsFor(k) = 0

\* A turn whose POST timed out and a turn the provider refused were answered
C21_Witness ==
    /\ inflight = <<>>
    /\ \E k, l \in 2..Len(messages) :
          /\ messages[k].content = TimeoutNotice
          /\ messages[l].content = "OpenRouter API Error: rate limited"
          /\ PostsFor(k - 1) = 1 /\ PostsFor(l - 1) = 1

----------------------------------------------------------------------------
(* The application's routes (main.py) and the dispatch of a request          *)

\* A request path: the route's path template and the value of its parameter
\* (project_id or file_id; 0 when the template has none)
Path(p, id) == [p |-> p, id |-> id]

\* main.py: the routes in the order of their decorators.
\* (RouteTableGetOnly: dashboard, projects and the project page are declared
\* with @app.get and logout with @app.get, as routes for GET only.)
RouteTableGetOnly ==
    <<[path |-> "/token", methods |-> {"POST"}, endpoint |-> "login_for_access_token"],
      [path |-> "/", methods |-> {"GET"}, endpoint |-> "root"],
      [path |-> "/health", methods |-> {"GET"}, endpoint |-> "health_check"],
      [path |-> "/login", methods |-> {"GET"}, endpoint |-> "login_page"],
      [path |-> "/login", methods |-> {"POST"}, endpoint |-> "login"],
      [path |-> "/register", methods |-> {"GET"}, endpoint |-> "register_page"],
      [path |-> "/register", methods |-> {"POST"}, endpoint |-> "register"],
      [path |-> "/logout", methods |-> {"GET"}, endpoint |-> "logout"],
      [path |-> "/dashboard", methods |-> {"GET"}, endpoint |-> "dashboard"],
      [path |-> "/projects", methods |-> {"GET"}, endpoint |-> "projects_handler"],
      [path |-> "/projects/{project_id}", methods |-> {"GET"}, endpoint |-> "project_page"],
      [path |-> "/projects/{project_id}/prompts", methods |-> {"POST"},
       endpoint |-> "create_prompt_endpoint"],
      [path |-> "/projects/{project_id}/prompts", methods |-> {"GET"},
       endpoint |-> "get_prompts_endpoint"],
      [path |-> "/projects/{project_id}/chat", methods |-> {"POST"},
       endpoint |-> "chat_endpoint"],
      [path |-> "/projects/{project_id}/chat", methods |-> {"GET"},
       endpoint |-> "get_chat_messages"],
      [path |-> "/projects/{project_id}/upload", methods |-> {"POST"},
       endpoint |-> "upload_file"],
      [path |-> "/projects/{project_id}/files", methods |-> {"GET"},
       endpoint |-> "get_project_files"],
      [path |-> "/files/{file_id}", methods |-> {"GET"}, endpoint |-> "download_file"],
      [path |-> "/api/projects/{project_id}/messages", methods |-> {"GET"},
       endpoint |-> "get_messages_api"]>>
RouteTable ==
    <<[path |-> "/token", methods |-> {"POST"}, endpoint |-> "login_for_access_token"],
      [path |-> "/", methods |-> {"GET"}, endpoint |-> "root"],
      [path |-> "/health", methods |-> {"GET"}, endpoint |-> "health_check"],
      [path |-> "/login", methods |-> {"GET"}, endpoint |-> "login_page"],
      [path |-> "/login", methods |-> {"POST"}, endpoint |-> "login"],
      [path |-> "/register", methods |-> {"GET"}, endpoint |-> "register_page"],
      [path |-> "/register", methods |-> {"POST"}, endpoint |-> "register"],
      [path |-> "/logout", methods |-> {"GET", "POST"}, endpoint |-> "logout"],
      [path |-> "/dashboard", methods |-> {"GET", "POST"}, endpoint |-> "dashboard"],
      [path |-> "/projects", methods |-> {"GET", "POST"}, endpoint |-> "projects_handler"],
      [path |-> "/projects/{project_id}", methods |-> {"GET", "POST"},
       endpoint |-> "project_page"],
      [path |-> "/projects/{project_id}/prompts", methods |-> {"POST"},
       endpoint |-> "create_prompt_endpoint"],
      [path |-> "/projects/{project_id}/prompts", methods |-> {"GET"},
       endpoint |-> "get_prompts_endpoint"],
      [path |-> "/projects/{project_id}/chat", methods |-> {"POST"},
       endpoint |-> "chat_endpoint"],
      [path |-> "/projects/{project_id}/chat", methods |-> {"GET"},
       endpoint |-> "get_chat_messages"],
      [path |-> "/projects/{project_id}/upload", methods |-> {"POST"},
       endpoint |-> "upload_file"],
      [path |-> "/projects/{project_id}/files", methods |-> {"GET"},
       endpoint |-> "get_project_files"],
      [path |-> "/files/{file_id}", methods |-> {"GET"}, endpoint |-> "download_file"],
      [path |-> "/api/projects/{project_id}/messages", methods |-> {"GET"},
       endpoint |-> "get_messages_api"]>>

\* The router (Starlette): the first route that matches path and method
\* handles the request; a path that only routes of other methods match is
\* answered 405, a path no route matches 404
Dispatch(method, path) ==
    LET full == {i \in DOMAIN RouteTable :
                    RouteTable[i].path = path.p /\ method \in RouteTable[i].methods}
        partial == {i \in DOMAIN RouteTable : RouteTable[i].path = path.p}
    IN IF full # {}
       THEN RouteTable[CHOOSE i \in full : \A j \in full : i <= j].endpoint
       ELSE IF partial # {} THEN "405"
       ELSE "404"

\* response.delete_cookie(key="access_token")
DeletedCookie == [k |-> "Deleted"]

\* main.py lines 174-176 (and the same lines of the other handlers): the
\* redirect carries the access_token cookie of the request when it has one.
\* (preserve_cookie_renewing: the redirect carries a token made anew for the
\* subject of the cookie's token.)
preserve_cookie_renewing(cookie) ==
    IF cookie = None \/ cookie.v = <<>> THEN None
    ELSE LET token == get_token_from_cookie(cookie)
             email == IF token = None THEN None ELSE verify_token(token.v, now)
         IN IF email = None THEN cookie
            ELSE Some(SessionCookie(create_access_token([sub |-> email.v], None, now)))
preserve_cookie(cookie) ==
    IF cookie = None \/ cookie.v = <<>> THEN None ELSE cookie

\* crud.py create_file, get_files_by_project, get_file_by_id
create_file(fs, filename, file_path, project_id) ==
    Append(fs, [id |-> Len(fs) + 1, project_id |-> project_id, filename |-> filename,
                file_path |-> file_path])
get_files_by_project(fs, project_id) ==
    SelectSeq(fs, LAMBDA r : r.project_id = project_id)
get_file_by_id(fs, file_id) ==
    IF file_id \in 1..Len(fs) THEN Some(fs[file_id]) ELSE None

\* main.py upload_file lines 354-356: uploads/<uuid4><extension>; the n-th
\* uuid4 drawn is the n-th of a sequence without repetition
UploadPath(n, filename) == [dir |-> "uploads", uuid |-> n, of |-> filename]

\* The handlers of main.py other than register (see Register): what the
\* endpoint answers and what it leaves in the tables, for a request with the
\* given access_token cookie, Authorization header and form fields. A chat
\* request with a ChatBot is left suspended in its outbound call (see
\* ChatFinish).
Handle(endpoint, method, path, cookie, authorization, form) ==
    LET st == [resp |-> resp, projects |-> projects, prompts |-> prompts,
               messages |-> messages, files |-> files, issued |-> issued,
               logouts |-> logouts, inflight |-> inflight, posts |-> posts]
        Answer(r) == [st EXCEPT !.resp = r]
        current_user == get_current_user(cookie, users, now)
        project == IF current_user.raised THEN None
                   ELSE get_project_by_id(projects, path.id, current_user.value.id)
        Echo(url) == Response(endpoint, 303, url, preserve_cookie(cookie))
    IN CASE endpoint = "404" -> Answer(Response(endpoint, 404, "Not Found", None))
         [] endpoint = "405" -> Answer(Response(endpoint, 405, "Method Not Allowed", None))
         [] endpoint = "root" -> Answer(Response(endpoint, 307, "/login", None))
         [] endpoint = "health_check" -> Answer(Response(endpoint, 200, "ok", None))
         [] endpoint = "login_page" -> Answer(Response(endpoint, 200, "login.html", None))
         [] endpoint = "register_page" ->
                Answer(Response(endpoint, 200, "register.html", None))
         [] endpoint = "login_for_access_token" ->
                LET r == login_for_access_token(users, form.email, form.password,
                                                bcryptStrict, now)
                IN IF authenticate_user(users, form.email, form.password,
                                        bcryptStrict).raised
                   THEN Answer(Response(endpoint, 500, "Internal Server Error", None))
                   ELSE IF r.raised THEN Answer(Denied(endpoint, r.exc))
                   ELSE [Answer(Response(endpoint, 200, "bearer", None))
                            EXCEPT !.issued = issued \cup
                                {[token |-> r.value.access_token, at |-> now,
                                  ttl |-> timedelta(ACCESS_TOKEN_EXPIRE_MINUTES)]}]
         [] endpoint = "login" ->
                LET r == login(users, form.email, form.password, bcryptStrict, now)
                IN IF r.set_cookie = None THEN Answer(r)
                   ELSE [Answer(r) EXCEPT !.issued = issued \cup
                            {[token |-> get_token_from_cookie(r.set_cookie).v, at |-> now,
                              ttl |-> None]}]
         [] endpoint = "logout" ->
                [Answer(Response(endpoint, 303, "/login", DeletedCookie))
                    EXCEPT !.logouts = Some(now)]
         [] endpoint = "get_messages_api" ->
                LET api_user == get_current_user_api(authorization, users, now)
                IN IF api_user.raised THEN Answer(Denied(endpoint, api_user.exc))
                   ELSE IF get_project_by_id(projects, path.id, api_user.value.id) = None
                   THEN Answer(Response(endpoint, 404, "Project not found", None))
                   ELSE Answer(Response(endpoint, 200, "messages", None))
         [] OTHER ->
                IF current_user.raised THEN Answer(Denied(endpoint, current_user.exc))
                ELSE CASE endpoint = "dashboard" ->
                              IF method = "POST" THEN Answer(Echo("/dashboard"))
                              ELSE Answer(Response(endpoint, 200, "dashboard.html", None))
                       [] endpoint = "projects_handler" ->
                              IF method # "POST"
                              THEN Answer(Response(endpoint, 200, "dashboard.html", None))
                              ELSE IF form.name = ""
                              THEN Answer(Response(endpoint, 400,
                                                   "Project name is required", None))
                              ELSE [Answer(Echo("/projects/{id}"))
                                       EXCEPT !.projects =
                                           create_project(projects, current_user.value.id)]
                       [] endpoint = "project_page" ->
                              IF method = "POST" THEN Answer(Echo("/projects/{id}"))
                              ELSE IF project = None
                              THEN Answer(Response(endpoint, 404, "Project not found", None))
                              ELSE Answer(Response(endpoint, 200, "project.html", None))
                       [] endpoint = "download_file" ->
                              LET file_record == get_file_by_id(files, path.id)
                              IN IF file_record = None
                                 THEN Answer(Response(endpoint, 404, "File not found", None))
                                 ELSE IF get_project_by_id(projects, file_record.v.project_id,
                                                           current_user.value.id) = None
                                 THEN Answer(Response(endpoint, 404, "File not found", None))
                                 ELSE Answer(Response(endpoint, 200, "file", None))
                       [] OTHER ->
                              IF project = None
                              THEN Answer(Response(endpoint, 404, "Project not found", None))
                              ELSE CASE endpoint = "create_prompt_endpoint" ->
                                            [Answer(Echo("/projects/{id}"))
                                                EXCEPT !.prompts =
                                                    create_prompt(prompts, form.text, path.id)]
                                     [] endpoint = "get_prompts_endpoint" ->
                                            Answer(Response(endpoint, 200, "prompts", None))
                                     [] endpoint = "get_chat_messages" ->
                                            Answer(Response(endpoint, 200, "messages", None))
                                     [] endpoint = "get_project_files" ->
                                            Answer(Response(endpoint, 200, "files", None))
                                     [] endpoint = "upload_file" ->
                                            [Answer(Echo("/projects/{id}"))
                                                EXCEPT !.files =
                                                    create_file(files, form.filename,
                                                        UploadPath(Len(files) + 1,
                                                                   form.filename),
                                                        path.id)]
                                     [] endpoint = "chat_endpoint" ->
                                            LET saved == create_message(messages, "user",
                                                             form.message, path.id)
                                            IN IF chatbot = None
                                               THEN [Answer(Echo("/projects/{id}"))
                                                        EXCEPT !.messages =
                                                            SaveReply(saved, chatbot,
                                                                      NoPost, path.id)]
                                               ELSE [st EXCEPT
                                                        !.messages = saved,
                                                        !.inflight = Append(inflight,
                                                            [user_id |-> current_user.value.id,
                                                             project_id |-> path.id,
                                                             cookie |-> cookie,
                                                             at |-> now,
                                                             user_message |-> saved[Len(saved)].id,
                                                             db |-> SessionAtAwait,
                                                             payload |-> ChatContext(saved,
                                                                 path.id, form.message)]),
                                                        !.posts = Append(posts,
                                                            [user_message |->
                                                                saved[Len(saved)].id])]

\* One request served: dispatched, handled and answered
Serve(method, path, cookie, authorization, form) ==
    \E endpoint \in {Dispatch(method, path)} :
    \E out \in {Handle(endpoint, method, path, cookie, authorization, form)} :
       /\ endpoint # "register"
       /\ Len(out.projects) <= MaxProjects
       /\ Len(out.prompts) <= MaxPrompts
       /\ Len(out.messages) + Len(out.inflight) <= MaxMessages
       /\ Len(out.inflight) <= MaxInflight
       /\ Len(out.files) <= MaxFiles
       /\ Cardinality(out.issued) <= MaxSessions
       /\ resp' = out.resp
       /\ projects' = out.projects
       /\ prompts' = out.prompts
       /\ messages' = out.messages
       /\ files' = out.files
       /\ issued' = out.issued
       /\ logouts' = out.logouts
       /\ inflight' = out.inflight
       /\ posts' = out.posts
       /\ req' = [method |-> method, path |-> path, cookie |-> cookie,
                  authorization |-> authorization, form |-> form, at |-> now]
       /\ UNCHANGED <<users, chatbot, now, authVars, bcryptStrict, usedSalts, pwVars,
                      gwVars, registering>>

----------------------------------------------------------------------------
(* SpecRoutes: requests of two registered users, and of clients without      *)
(* credentials, to every route that needs a session. User a owns project 1;  *)
(* a second project is made by either user.                                  *)

RouteUsers ==
    create_user(create_user(<<>>, "a@x.com", PwA, 1, FALSE, 0).value,
                "b@x.com", PwA, 2, FALSE, 0).value
RouteProjects == create_project(<<>>, 1)

\* The session cookie register set for email, and the same token in an
\* Authorization header
CookieOf(email) == Some(SessionCookie(create_access_token([sub |-> email], None, 0)))
HeaderOf(email) == Some(BearerPrefix \o create_access_token([sub |-> email], None, 0))

NoCredentials == [cookie |-> None, authorization |-> None]
RouteCredentials ==
    {NoCredentials,
     [cookie |-> CookieOf("a@x.com"), authorization |-> None],
     [cookie |-> CookieOf("b@x.com"), authorization |-> None],
     [cookie |-> None, authorization |-> HeaderOf("a@x.com")]}

\* The path templates with a project_id
ProjectTemplates ==
    {"/projects/{project_id}", "/projects/{project_id}/prompts",
     "/projects/{project_id}/chat", "/projects/{project_id}/upload",
     "/projects/{project_id}/files", "/api/projects/{project_id}/messages"}

RoutePaths ==
    {Path("/dashboard", 0), Path("/projects", 0), Path("/undefined-route", 0)}
        \cup {Path("/files/{file_id}", id) : id \in 1..MaxFiles}
        \cup {Path(t, id) : t \in ProjectTemplates, id \in 1..MaxProjects}

RouteForm ==
    [email |-> "a@x.com", password |-> PwA, name |-> "notes", text |-> PromptText,
     message |-> ChatMessage, filename |-> "a.txt"]

InitRoutes ==
    /\ users = RouteUsers
    /\ projects = RouteProjects
    /\ prompts = <<>>
    /\ messages = <<>>
    /\ now = 0
    /\ issued = {}
    /\ chatbot = None
    /\ inflight = <<>>
    /\ resp = NoResp
    /\ usedSalts = {1, 2}
    /\ bcryptStrict = FALSE
    /\ authLast = NoCall
    /\ pwHashes = <<>>
    /\ pwLast = NoCall
    /\ gwLast = NoCall
    /\ files = <<>>
    /\ posts = <<>>
    /\ logouts = None
    /\ registering = <<>>
    /\ req = NoReq

NextRoutes ==
    \E method \in {"GET", "POST"}, path \in RoutePaths, cr \in RouteCredentials :
        Serve(method, path, cr.cookie, cr.authorization, RouteForm)

SpecRoutes == InitRoutes /\ [][NextRoutes]_vars

----------------------------------------------------------------------------
(* SpecSession: one registered user logs in, uses the session, logs out and  *)
(* replays the tokens the server handed out, while time passes.              *)

\* The tokens the server handed out, as access_token cookie and as
\* Authorization header
IssuedCookies == {Some(SessionCookie(r.token)) : r \in issued}
IssuedHeaders == {Some(BearerPrefix \o r.token) : r \in issued}

SessionForm(password) ==
    [email |-> AuthEmail, password |-> password, name |-> "notes", text |-> PromptText,
     message |-> ChatMessage, filename |-> "a.txt"]

\* The requests of the client: login and /token with the right and a wrong
\* password, logout, and requests that need a session
SessionRequests ==
    {[method |-> "POST", path |-> Path(p, 0), cookie |-> None, authorization |-> None,
      form |-> SessionForm(pw)] : p \in {"/login", "/token"}, pw \in {PwA, PwB}}
        \cup {[method |-> m, path |-> Path("/logout", 0), cookie |-> c,
               authorization |-> None, form |-> SessionForm(PwA)] :
                  m \in {"GET", "POST"}, c \in {None} \cup IssuedCookies}
        \cup {[method |-> m, path |-> Path("/dashboard", 0), cookie |-> c,
               authorization |-> None, form |-> SessionForm(PwA)] :
                  m \in {"GET", "POST"}, c \in IssuedCookies}
        \cup {[method |-> "POST", path |-> Path("/projects/{project_id}", 1), cookie |-> c,
               authorization |-> None, form |-> SessionForm(PwA)] : c \in IssuedCookies}
        \cup {[method |-> "GET", path |-> Path("/api/projects/{project_id}/messages", 1),
               cookie |-> None, authorization |-> h, form |-> SessionForm(PwA)] :
                  h \in IssuedHeaders}

InitSession ==
    /\ users = ChatUsers
    /\ projects = ChatProjects
    /\ prompts = <<>>
    /\ messages = <<>>
    /\ now = 0
    /\ issued = {}
    /\ chatbot = None
    /\ inflight = <<>>
    /\ resp = NoResp
    /\ usedSalts = {1}
    /\ bcryptStrict = FALSE
    /\ authLast = NoCall
    /\ pwHashes = <<>>
    /\ pwLast = NoCall
    /\ gwLast = NoCall
    /\ files = <<>>
    /\ posts = <<>>
    /\ logouts = None
    /\ registering = <<>>
    /\ req = NoReq

NextSession ==
    \/ \E r \in SessionRequests :
           Serve(r.method, r.path, r.cookie, r.authorization, r.form)
    \/ \E d \in TickSteps : Tick(d)

SpecSession == InitSession /\ [][NextSession]_vars

----------------------------------------------------------------------------
(* SpecReg: POST /register served by several workers on one database, so that *)
(* a request can run between the check and the insert of another.            *)

InitReg ==
    /\ users = <<>>
    /\ projects = <<>>
    /\ prompts = <<>>
    /\ messages = <<>>
    /\ now = 0
    /\ issued = {}
    /\ chatbot = None
    /\ inflight = <<>>
    /\ resp = NoResp
    /\ usedSalts = {}
    /\ bcryptStrict = FALSE
    /\ authLast = NoCall
    /\ pwHashes = <<>>
    /\ pwLast = NoCall
    /\ gwLast = NoCall
    /\ files = <<>>
    /\ posts = <<>>
    /\ logouts = None
    /\ registering = <<>>
    /\ req = NoReq

\* main.py register lines 146-151: the "already registered" check
RegCheck(email, password) ==
    /\ IF get_user_by_email(users, email) # None
       THEN /\ resp' = Response("register", 200, "Email already registered", None)
            /\ UNCHANGED registering
       ELSE /\ Len(registering) < MaxRegistering
            /\ registering' = Append(registering, [email |-> email, password |-> password])
            /\ UNCHANGED resp
    /\ UNCHANGED <<users, projects, prompts, messages, chatbot, inflight, now, issued,
                   authVars, bcryptStrict, usedSalts, pwVars, gwVars,
                   files, posts, logouts, req>>

\* main.py register lines 153-157: create_user, the token and the redirect; an
\* exception of create_user is answered by the server with a 500
RegCreate(i) ==
    /\ i \in 1..Len(registering)
    /\ usedSalts # Salts
    /\ LET made == create_user(users, registering[i].email, registering[i].password,
                               FreshSalt, bcryptStrict, now)
           access_token == create_access_token([sub |-> registering[i].email], None, now)
       IN IF made.raised
          THEN /\ resp' = Response("register", 500, "Internal Server Error", None)
               /\ UNCHANGED users
          ELSE /\ users' = made.value
               /\ resp' = Response("register", 303, "/dashboard",
                                   Some(SessionCookie(access_token)))
    /\ usedSalts' = usedSalts \cup {FreshSalt}
    /\ registering' = RemoveAt(registering, i)
    /\ UNCHANGED <<projects, prompts, messages, chatbot, inflight, now, issued,
                   authVars, bcryptStrict, pwVars, gwVars, files, posts, logouts, req>>

NextReg ==
    \/ \E e \in Emails, p \in {PwA, PwB} : RegCheck(e, p)
    \/ \E i \in 1..MaxRegistering : RegCreate(i)

SpecReg == InitReg /\ [][NextReg]_vars

\* C27: no two user rows carry one email, also when registrations for one
\* email pass the "already registered" check before either inserts; a
\* registration for an email that is registered (at its check, or by the time
\* of its insert) adds no row and sets no cookie.
C27_UniqueEmail ==
    /\ [](\A i, j \in 1..Len(users) : users[i].email = users[j].email => i = j)
    /\ [][/\ \A e \in Emails, p \in {PwA, PwB} :
               (RegCheck(e, p) /\ get_user_by_email(users, e) # None) =>
                   /\ users' = users
                   /\ registering' = registering
                   /\ resp'.status = 200
                   /\ resp'.set_cookie = None
          /\ \A i \in 1..MaxRegistering :
               (RegCreate(i) /\ get_user_by_email(users, registering[i].email) # None) =>
                   /\ users' = users
                   /\ resp'.status = 500
                   /\ resp'.set_cookie = None]_vars

\* Two registrations for a@x.com passed the check together; one made the row,
\* the other was refused by the database
C27_Witness ==
    /\ Len(users) = 1
    /\ users[1].email = "a@x.com"
    /\ registering = <<>>
    /\ usedSalts = Salts
    /\ resp.status = 500

\* The turns of project pid with role r
TurnsOf(pid, r) ==
    {k \in 1..Len(messages) : messages[k].project_id = pid /\ messages[k].role = r}

PendingOn(pid) == {i \in 1..Len(inflight) : inflight[i].project_id = pid}

\* The rows a context was made from
SrcOf(payload) == {payload[j].src : j \in 1..Len(payload)} \ {0}

\* C25: within an accepted chat request the user turn is saved first, the
\* history is read next (it holds the turn just saved and nothing saved
\* later), one gateway call follows, and the assistant turn is saved last;
\* each accepted request appends exactly one user turn and then exactly one
\* assistant turn to its project.
C25_ChatStepOrder ==
    /\ [](\A i \in 1..Len(inflight) :
            LET k == inflight[i].user_message
            IN /\ k \in TurnsOf(inflight[i].project_id, "user")
               /\ k \in SrcOf(inflight[i].payload)
               /\ \A n \in SrcOf(inflight[i].payload) : n <= k
               /\ PostsFor(k) = 1)
    /\ [](\A pid \in 1..Len(projects) :
            Cardinality(TurnsOf(pid, "user"))
                = Cardinality(TurnsOf(pid, "assistant")) + Cardinality(PendingOn(pid)))
    /\ [][/\ \A c \in {None, OwnerCookie}, pid \in 1..(Len(ChatProjects) + 1) :
               (ChatBegin(c, pid, ChatMessage) /\ chatbot = None /\ messages' # messages) =>
                   /\ Len(messages') = Len(messages) + 2
                   /\ SubSeq(messages', 1, Len(messages)) = messages
                   /\ messages'[Len(messages) + 1].role = "user"
                   /\ messages'[Len(messages) + 1].project_id = pid
                   /\ messages'[Len(messages) + 2].role = "assistant"
                   /\ messages'[Len(messages) + 2].project_id = pid
          /\ \A c \in {None, OwnerCookie}, pid \in 1..(Len(ChatProjects) + 1) :
               (ChatBegin(c, pid, ChatMessage) /\ inflight' # inflight) =>
                   /\ messages' = Append(messages, [id |-> Len(messages) + 1,
                                                    project_id |-> pid, role |-> "user",
                                                    content |-> ChatMessage])
                   /\ inflight'[Len(inflight')].user_message = Len(messages')
          /\ \A i \in 1..MaxInflight, o \in GatewayOutcomes :
               ChatFinish(i, o) =>
                   /\ Len(messages') = Len(messages) + 1
                   /\ SubSeq(messages', 1, Len(messages)) = messages
                   /\ messages'[Len(messages')].role = "assistant"
                   /\ messages'[Len(messages')].project_id = inflight[i].project_id
                   /\ inflight[i].user_message < Len(messages')
                   /\ posts' = posts]_vars

\* A chat turn of project 1 was completed, and a second request of the
\* project is suspended in its gateway call
C25_Witness ==
    /\ Cardinality(TurnsOf(1, "user")) = 2
    /\ Cardinality(TurnsOf(1, "assistant")) = 1
    /\ PendingOn(1) # {}
    /\ \E k \in TurnsOf(1, "user") : k + 1 \in TurnsOf(1, "assistant")

\* C28 (as claimed): while the outbound call of a chat request is pending the
\* request holds no resource: its database session is closed and it is in no
\* transaction.
C28_Original ==
    \A i \in 1..Len(inflight) :
        inflight[i].db.closed /\ ~inflight[i].db.in_transaction

\* The routes that need a session, with the methods the route tests request
TestedRoutes ==
    {<<"GET", "/dashboard">>, <<"POST", "/dashboard">>,
     <<"GET", "/projects">>, <<"POST", "/projects">>,
     <<"GET", "/projects/{project_id}">>, <<"POST", "/projects/{project_id}">>,
     <<"POST", "/projects/{project_id}/prompts">>, <<"GET", "/projects/{project_id}/prompts">>,
     <<"POST", "/projects/{project_id}/chat">>, <<"GET", "/projects/{project_id}/chat">>,
     <<"POST", "/projects/{project_id}/upload">>, <<"GET", "/projects/{project_id}/files">>,
     <<"GET", "/files/{file_id}">>, <<"GET", "/api/projects/{project_id}/messages">>}

\* C24: each of these routes answers a request without credentials (no
\* access_token cookie, no Authorization header) with 401, never with 405,
\* and such a request changes no stored user, project, prompt, message or
\* file. (req' is the request the step serves.)
C24_ProtectedRoutes401 ==
    /\ []((/\ req # NoReq
           /\ <<req.method, req.path.p>> \in TestedRoutes
           /\ req.cookie = None /\ req.authorization = None)
          => resp.status = 401)
    /\ [][(/\ req' # NoReq
            /\ <<req'.method, req'.path.p>> \in TestedRoutes
            /\ req'.cookie = None /\ req'.authorization = None)
           => /\ resp'.status = 401
              /\ UNCHANGED <<users, projects, prompts, messages, files>>]_vars

\* With a prompt, a chat turn and a file stored, a chat request without
\* credentials was refused
C24_Witness ==
    /\ req # NoReq
    /\ req.method = "POST" /\ req.path = Path("/projects/{project_id}/chat", 1)
    /\ req.cookie = None /\ req.authorization = None
    /\ resp.status = 401
    /\ prompts # <<>> /\ messages # <<>> /\ files # <<>>

\* The user a request's credentials belong to (0: none)
UserIdOf(cookie, authorization, path) ==
    IF path.p = "/api/projects/{project_id}/messages"
    THEN IF authorization = HeaderOf("a@x.com") THEN 1
         ELSE IF authorization = HeaderOf("b@x.com") THEN 2 ELSE 0
    ELSE IF cookie = CookieOf("a@x.com") THEN 1
         ELSE IF cookie = CookieOf("b@x.com") THEN 2 ELSE 0

\* The routes that work on one project, or on a file of one project
ScopedRoutes ==
    {<<"POST", "/projects/{project_id}/prompts">>, <<"GET", "/projects/{project_id}/prompts">>,
     <<"POST", "/projects/{project_id}/chat">>, <<"GET", "/projects/{project_id}/chat">>,
     <<"POST", "/projects/{project_id}/upload">>, <<"GET", "/projects/{project_id}/files">>,
     <<"GET", "/files/{file_id}">>, <<"GET", "/api/projects/{project_id}/messages">>}

\* The project a scoped request is about (0: the file does not exist)
TargetOf(path) ==
    IF path.p = "/files/{file_id}"
    THEN IF path.id \in 1..Len(files) THEN files[path.id].project_id ELSE 0
    ELSE path.id

Owns(uid, pid) == pid \in 1..Len(projects) /\ projects[pid].user_id = uid

\* The rows of table t2 that table t1 does not hold
NewRows(t1, t2) == {t2[n] : n \in (Len(t1) + 1)..Len(t2)}

\* C30: a project-scoped request of a signed-in user about a project the user
\* does not own, or that does not exist, is answered 404 and changes no
\* stored message, prompt or file; and no request writes a row into a project
\* its user does not own. (req' is the request the step serves.)
C30_ForeignProject404 ==
    /\ []((/\ req # NoReq
           /\ <<req.method, req.path.p>> \in ScopedRoutes
           /\ UserIdOf(req.cookie, req.authorization, req.path) # 0
           /\ ~Owns(UserIdOf(req.cookie, req.authorization, req.path), TargetOf(req.path)))
          => resp.status = 404)
    /\ [][req' # NoReq =>
              LET uid == UserIdOf(req'.cookie, req'.authorization, req'.path)
              IN /\ \A row \in NewRows(prompts, prompts') \cup NewRows(messages, messages')
                                   \cup NewRows(files, files') :
                        uid # 0 /\ Owns(uid, row.project_id)
                 /\ (/\ <<req'.method, req'.path.p>> \in ScopedRoutes
                     /\ uid # 0
                     /\ ~Owns(uid, TargetOf(req'.path)))
                    => /\ resp'.status = 404
                       /\ UNCHANGED <<prompts, messages, files>>]_vars

\* User b asked to chat in project 1 of user a, which holds turns, and to
\* download its file, and was answered 404
C30_Witness ==
    /\ req # NoReq
    /\ req.cookie = CookieOf("b@x.com")
    /\ req.path \in {Path("/projects/{project_id}/chat", 1), Path("/files/{file_id}", 1)}
    /\ Owns(1, 1)
    /\ messages # <<>> /\ files # <<>> /\ files[1].project_id = 1
    /\ Len(projects) = 2 /\ Owns(2, 2)
    /\ resp.status = 404

\* C22 (as claimed): without the provider's API key start-up fails, so the
\* application answers no request while there is no ChatBot, and no chat turn
\* is answered with the notice that the ChatBot is not initialised.
C22_Original ==
    /\ chatbot = None => resp = NoResp
    /\ \A k \in 1..Len(messages) : messages[k].content # NotInitialized

\* The stored turns a call's context was made from
ContextTurns(call) ==
    {messages[call.payload[k].src] :
        k \in {j \in 1..Len(call.payload) : call.payload[j].src # 0}}

\* C1: for every chat turn of user u on project p, every stored turn in the
\* context sent to the gateway is a turn of project p, and p is owned by u; no
\* turn of another user's project is ever in u's context.
C1_ContextIsolation ==
    \A i \in 1..Len(inflight) :
        /\ inflight[i].project_id \in 1..Len(projects)
        /\ projects[inflight[i].project_id].user_id = inflight[i].user_id
        /\ \A m \in ContextTurns(inflight[i]) :
              /\ m.project_id = inflight[i].project_id
              /\ projects[m.project_id].user_id = inflight[i].user_id

\* A context holding a stored turn is on its way to the gateway while the
\* table holds a turn of another user's project.
C1_Witness ==
    \E i \in 1..Len(inflight), k \in 1..Len(messages) :
        /\ ContextTurns(inflight[i]) # {}
        /\ messages[k].project_id # inflight[i].project_id
        /\ projects[messages[k].project_id].user_id # inflight[i].user_id

\* C2: the gateway is invoked only from a chat request whose cookie carried a
\* token that resolves (at the time of the request) to an existing user, and
\* whose project that user owns; a request without a token, with an invalid
\* one, or for a project of someone else never has a call in flight.
C2_GatewayOnlyForOwner ==
    \A i \in 1..Len(inflight) :
        LET call == inflight[i]
        IN /\ CookieCause(call.cookie, call.at) = "valid"
           /\ \E u \in 1..Len(users) :
                 /\ users[u].email =
                        SubSeq(call.cookie.v, Len(BearerPrefix) + 1,
                               Len(call.cookie.v))[1].payload.sub
                 /\ call.project_id \in 1..Len(projects)
                 /\ projects[call.project_id].user_id = u

\* A call is in flight for one user's project while another user, who owns a
\* project of their own, is registered, after the caller's token has expired.
C2_Witness ==
    /\ Len(inflight) >= 1
    /\ \E q \in 1..Len(projects) : projects[q].user_id # inflight[1].user_id
    /\ CookieCause(inflight[1].cookie, now) = "expired"

\* The token of a cookie "Bearer <token>"
TokenOf(cookie) == SubSeq(cookie.v, Len(BearerPrefix) + 1, Len(cookie.v))

\* C13: after an identity registered, a login with the correct password sets a
\* cookie whose token verifies to exactly the registered email, and a protected
\* request carrying that cookie resolves to that user at every time within the
\* TTL. (Every registration here is made with password PwA.)
C13_LoginRoundTrip ==
    [][\A e \in Emails :
         (Login(e, PwA) /\ get_user_by_email(users, e) # None) =>
            /\ resp'.status = 303
            /\ resp'.set_cookie # None
            /\ \A t \in now..(now + ACCESS_TOKEN_EXPIRE_MINUTES - 1) :
                  /\ verify_token(TokenOf(resp'.set_cookie), t) = Some(e)
                  /\ ~get_current_user(resp'.set_cookie, users, t).raised
                  /\ get_current_user(resp'.set_cookie, users, t).value.email = e]_vars

\* The answer on display is that of a login made a session lifetime after the
\* identity registered, and its cookie resolves.
C13_Witness ==
    /\ resp.status = 303
    /\ resp.detail = "/dashboard"
    /\ \E u \in 1..Len(users) :
          /\ users[u].email = TokenOf(resp.set_cookie)[1].payload.sub
          /\ TokenOf(resp.set_cookie)[1].payload.exp
                 > users[u].created_at + ACCESS_TOKEN_EXPIRE_MINUTES
    /\ ~get_current_user(resp.set_cookie, users, now).raised

----------------------------------------------------------------------------
(* Sessions: logout and the lifetime of a token (SpecSession)               *)

\* The routes of SpecSession that need a session
SessionRoutes == {"/dashboard", "/projects/{project_id}",
                  "/api/projects/{project_id}/messages"}

\* The request the last step served carries the token of r: as the
\* access_token cookie, or on the API route in the Authorization header
Carries(r) ==
    /\ req # NoReq
    /\ req.path.p \in SessionRoutes
    /\ IF req.path.p = "/api/projects/{project_id}/messages"
       THEN req.authorization = Some(BearerPrefix \o r.token)
       ELSE req.cookie = Some(SessionCookie(r.token))

\* The request the last step served was accepted: a page, or the redirect of
\* a POST handler
Accepted == resp.status \in {200, 303}

\* C23: a request to /logout changes no stored row and hands out no token, it
\* only answers with the redirect that deletes the access_token cookie; and a
\* token issued before a logout, replayed after it as cookie or as
\* Authorization header, is accepted at every time before its expiry and
\* refused with 401 at every time after it. (req' is the request the step
\* serves.)
C23_LogoutStateless ==
    /\ [](\A r \in issued :
            (/\ logouts # None
             /\ r.at <= logouts.v
             /\ Carries(r)
             /\ req.at >= logouts.v)
            => /\ req.at < r.at + TtlOf(r) => Accepted
               /\ req.at > r.at + TtlOf(r) => resp.status = 401)
    /\ [][(req' # NoReq /\ req'.path.p = "/logout")
           => /\ UNCHANGED <<users, projects, prompts, messages, files, issued, inflight>>
              /\ resp' = Response("logout", 303, "/login", DeletedCookie)]_vars

\* After a logout, and later than it, the token of the session that was
\* logged out was replayed in the Authorization header and accepted
C23_Witness ==
    /\ logouts # None
    /\ req # NoReq
    /\ req.path.p = "/api/projects/{project_id}/messages"
    /\ req.at > logouts.v
    /\ \E r \in issued : r.at <= logouts.v /\ Carries(r)
    /\ resp.status = 200

\* C29: a request that needs a session answers with no access_token cookie
\* or with exactly the cookie it received, and the redirect of a POST handler
\* carries the cookie it received; a token is handed out only by a request to
\* /login, /register or /token; and a request that carries a token issued at T
\* with the default lifetime is refused with 401 at every time after
\* T + ACCESS_TOKEN_EXPIRE_MINUTES. (req' is the request the step serves.)
C29_NeverExtended ==
    /\ []((req # NoReq /\ req.path.p \in SessionRoutes)
          => /\ resp.set_cookie \in {None, req.cookie}
             /\ (resp.status = 303 /\ req.cookie # None) => resp.set_cookie = req.cookie)
    /\ [](\A r \in issued :
            (Carries(r) /\ r.ttl = None /\ req.at > r.at + ACCESS_TOKEN_EXPIRE_MINUTES)
                => resp.status = 401)
    /\ [][issued' # issued
            => /\ req'.path.p \in {"/login", "/register", "/token"}
               /\ \A r \in issued' \ issued : r.at = now]_vars

\* The session of the first login has run out, the user logged in again, and
\* a POST redirect handed back the cookie of the second session as received
C29_Witness ==
    /\ req # NoReq
    /\ req.method = "POST" /\ req.path.p = "/dashboard"
    /\ resp.status = 303
    /\ resp.set_cookie = req.cookie
    /\ \E r \in issued : r.ttl = None /\ r.at = req.at /\ Carries(r)
    /\ \E r \in issued : r.ttl = None /\ req.at > r.at + ACCESS_TOKEN_EXPIRE_MINUTES

====
